---------------------------- MODULE Spec2Model ----------------------------
(***************************************************************************)
(* A model of the state proposals and the salt-swap proposal of protons    *)
(* (protons/app/proposals.py), of the protonation-state drive that         *)
(* consumes them, and of the self-adjusted mixture sampling engine         *)
(* (protons/calibration.py).                                               *)
(*                                                                         *)
(* Numbers.  log_ratio is a float in the source.  It is kept here exactly, *)
(* as the record [num, den, work] standing for                             *)
(*        ln(num / den) - work / WeightDenom                               *)
(* so that the binomial factors and the chemical work that select_ions     *)
(* accumulates stay separate and comparable.  cation_coefficient is a      *)
(* multiple of 1/WeightDenom.                                              *)
(***************************************************************************)
EXTENDS Integers, Naturals, Sequences, FiniteSets, TLC

(***************************************************************************)
(* Bounds of the model.                                                    *)
(***************************************************************************)
NEntities == 3
MaxCharge == 2
WeightDenom == 2
MaxChem == 2
BetaValue == 2
MaxCount == 2
NGroups == 2
NStates == 3
MaxSteps == 2
MaxConfig == 2
ProbDenom == 4
MaxN == 2
MaxAdapt == 3
BDenom == 2
MaxBurnin == 3
MaxGainSteps == 6
MaxPH == 80
MaxTemplates == 3
MaxNetCharge == 1
SimplexDenom == 2

Entities == 1..NEntities
Groups == 1..NGroups
Configs == 0..MaxConfig
Charges == (0 - MaxCharge)..MaxCharge

(* saltswap convention, proposals.py:185-188 *)
WATER == 0
CATION == 1
ANION == 2

SwapKeys == {"water_to_cation", "water_to_anion", "cation_to_water", "anion_to_water"}

VARIABLES
    stateVector,               \* drive.swapper.stateVector: entity -> kind
    delta_chem,                \* drive.swapper.delta_chem: [value, unit]
    beta,                      \* drive.beta
    cation_weight,             \* self._cation_weight, in units of 1/WeightDenom
    anion_weight,              \* self._anion_weight, in units of 1/WeightDenom
    err_on_depletion,          \* self._err_on_depletion
    pc,                        \* position inside propose_swaps
    initial_charge,            \* argument of propose_swaps
    final_charge,              \* argument of propose_swaps
    net_charge_difference,     \* local of propose_swaps
    chem_potential,            \* local of propose_swaps (reduced)
    cr_initial_charge,         \* _select_swaps_chenroux's own initial_charge
    charge_to_counter,         \* local of _select_swaps_chenroux
    iterations,                \* number of passes through the while loop
    swaps,                     \* the swaps dict
    saltswap_residue_indices,  \* list under construction / returned
    saltswap_state_pairs,      \* list under construction / returned
    log_ratio,                 \* accumulator / returned
    error,                     \* the exception that left the call, or "none"
    drive_state,               \* the drive's position in an update() attempt
    titrationStates,           \* drive.titrationStates: group -> state index
    positions,                 \* physics engine: particle positions
    velocities,                \* physics engine: particle velocities
    nonbonded,                 \* physics engine: group -> applied parameters
    perturbations_per_trial,   \* number of NCMC substeps, 0 = instantaneous
    step,                      \* NCMC substeps done in this attempt
    snapshot,                  \* the drive's pre-attempt snapshot
    proposal,                  \* the Proposal of this attempt
    drive_error,               \* the error that ended the attempt, or "none"
    strategy,                  \* class of the state proposal object, or "none"
    strategy_args,             \* argument of the constructor last called
    simultaneous_proposal_probability, \* DoubleProposal's, in 1/ProbDenom
    p_N,                       \* CategoricalProposal.p_N, in 1/ProbDenom
    N,                         \* CategoricalProposal.N
    strategy_pc,               \* position of the proposal object's caller
    residue_pool_indices,      \* argument of propose_states
    random_random,             \* DoubleProposal: the value of random.random()
    ndraw,                     \* local of propose_states
    final_titration_states,    \* returned by propose_states
    titration_group_indices,   \* returned by propose_states
    strategy_log_ratio,        \* returned by propose_states
    strategy_error,            \* the exception that left the call, or "none"
    sams_group,                \* group_index given to the SAMS constructor
    n_adaptations,             \* self.n_adaptations
    state_counts,              \* self.state_counts
    g_k,                       \* titrationGroups[g]['titration_states'][s]['g_k']
    sams_pc,                   \* position of the caller of adapt_zetas
    sams_args,                 \* arguments of the last adapt_zetas call
    zeta,                      \* local of adapt_zetas, as get_gk returned it
    update,                    \* local of adapt_zetas
    target_deviation,          \* returned by adapt_zetas
    sams_error,                \* the exception that left the call, or "none"
    calls_returned,            \* history: the adapt_zetas calls that returned
    gain_factor,               \* what _gain_factor left: the gain or an error
    calculator,                \* a PopulationCalculator: its class and its k's
    calculator_pH,             \* the pH its constructor was given
    concentrations,            \* what its concentration methods returned
    populations,               \* what its populations() returned
    input_state_data,          \* self._input_state_data: the net charges given
    state_templates,           \* self._state_templates
    registry_pc,               \* position of _complete_state_registry
    registry_error             \* the exception that left it, or "none"

vars == <<stateVector, delta_chem, beta, cation_weight, anion_weight,
          err_on_depletion, pc, initial_charge, final_charge,
          net_charge_difference, chem_potential, cr_initial_charge,
          charge_to_counter, iterations, swaps, saltswap_residue_indices,
          saltswap_state_pairs, log_ratio, error, drive_state,
          titrationStates, positions, velocities, nonbonded,
          perturbations_per_trial, step, snapshot, proposal, drive_error,
          strategy, strategy_args, simultaneous_proposal_probability, p_N,
          N, strategy_pc, residue_pool_indices, random_random, ndraw, final_titration_states,
          titration_group_indices, strategy_log_ratio, strategy_error,
          sams_group, n_adaptations, state_counts, g_k, sams_pc,
          sams_args, zeta, update, target_deviation, sams_error,
          calls_returned, gain_factor, calculator, calculator_pH,
          concentrations, populations, input_state_data, state_templates,
          registry_pc, registry_error>>

(* the state proposal object and the frame of its propose_states *)
strategyVars == <<strategy, strategy_args, simultaneous_proposal_probability,
                  p_N, N,
                  strategy_pc, residue_pool_indices, random_random, ndraw,
                  final_titration_states, titration_group_indices,
                  strategy_log_ratio, strategy_error>>

(* the SAMS engine, the weights it adapts and the frame of its adapt_zetas *)
samsVars == <<sams_group, n_adaptations, state_counts, g_k, sams_pc,
              sams_args, zeta, update, target_deviation, sams_error,
              calls_returned, gain_factor>>

(* a population calculator and what was asked of it *)
calculatorVars == <<calculator, calculator_pH, concentrations, populations>>

(* the state registry of a titratable template *)
registryVars == <<input_state_data, state_templates, registry_pc,
                  registry_error>>

proposalVars == <<delta_chem, beta, cation_weight, anion_weight,
                  err_on_depletion, strategyVars, samsVars, calculatorVars,
                  registryVars>>

driveVars == <<drive_state, titrationStates, positions, velocities, nonbonded,
               perturbations_per_trial, step, snapshot, proposal, drive_error>>

(* what propose_swaps only reads *)
objectVars == <<stateVector, proposalVars, driveVars>>

swapLocals == <<pc, initial_charge, final_charge, net_charge_difference,
                chem_potential, cr_initial_charge, charge_to_counter,
                iterations, swaps, saltswap_residue_indices,
                saltswap_state_pairs, log_ratio, error>>

----------------------------------------------------------------------------
(* Helpers *)

Abs(x) == IF x < 0 THEN 0 - x ELSE x

RECURSIVE Comb(_, _)
(* scipy.misc.comb(n, k, exact=True): 0 when k > n *)
Comb(n, k) ==
    IF k < 0 \/ k > n THEN 0
    ELSE IF k = 0 THEN 1
    ELSE (Comb(n - 1, k - 1) * n) \div k

(* np.where(stateVector == kind)[0] *)
WhereKind(sv, kind) == {e \in DOMAIN sv : sv[e] = kind}

all_waters == WhereKind(stateVector, WATER)
all_cations == WhereKind(stateVector, CATION)
all_anions == WhereKind(stateVector, ANION)

(* np.random.choice(a, size, replace=False): its possible outcomes.  It
   raises ValueError when size exceeds the population, and otherwise returns
   one of the ordered samples of distinct members. *)
(* replace=True *)
RandomChoiceWithReplacement(a, size) ==
    IF a = {}
    THEN {[raised |-> TRUE, sample |-> <<>>]}
    ELSE {[raised |-> FALSE, sample |-> s] : s \in [1..size -> a]}

RandomChoice(a, size) ==
    IF size > Cardinality(a)
    THEN {[raised |-> TRUE, sample |-> <<>>]}
    ELSE {[raised |-> FALSE, sample |-> s] :
            s \in {t \in [1..size -> a] :
                     \A i, j \in 1..size : i # j => t[i] # t[j]}}

ZeroSwaps == [k \in SwapKeys |-> 0]

ZeroLogRatio == [num |-> 1, den |-> 1, work |-> 0]

(* log_ratio += (log_p_reverse - log_p_forward), with
   log_p_forward = -log(fwd) and log_p_reverse = -log(rev) *)
AddLogProbabilities(lr, fwd, rev) ==
    [lr EXCEPT !.num = @ * fwd, !.den = @ * rev]

(* log_ratio -= work *)
SubtractWork(lr, work) == [lr EXCEPT !.work = @ + work]

----------------------------------------------------------------------------
(* SaltSwapProposal._validate_swaps *)

(* a mix-up of the keys of the first test *)
ValidateSwapsErrorWrongKey(s) ==
    IF s["water_to_cation"] # 0 /\ s["anion_to_water"] # 0
    THEN "RuntimeError: Opposing charge ions are added."
    ELSE IF s["cation_to_water"] # 0 /\ s["anion_to_water"] # 0
    THEN "RuntimeError: Opposing charge ions are removed."
    ELSE IF s["cation_to_water"] # 0 /\ s["water_to_cation"] # 0
    THEN "RuntimeError: Cations are being added and removed."
    ELSE IF s["anion_to_water"] # 0 /\ s["water_to_anion"] # 0
    THEN "RuntimeError: Anions are being added and removed."
    ELSE "none"

(* the last elif left out *)
ValidateSwapsErrorNoAnionTest(s) ==
    IF s["water_to_cation"] # 0 /\ s["water_to_anion"] # 0
    THEN "RuntimeError: Opposing charge ions are added."
    ELSE IF s["cation_to_water"] # 0 /\ s["anion_to_water"] # 0
    THEN "RuntimeError: Opposing charge ions are removed."
    ELSE IF s["cation_to_water"] # 0 /\ s["water_to_cation"] # 0
    THEN "RuntimeError: Cations are being added and removed."
    ELSE "none"

ValidateSwapsError(s) ==
    IF s["water_to_cation"] # 0 /\ s["water_to_anion"] # 0
    THEN "RuntimeError: Opposing charge ions are added."
    ELSE IF s["cation_to_water"] # 0 /\ s["anion_to_water"] # 0
    THEN "RuntimeError: Opposing charge ions are removed."
    ELSE IF s["cation_to_water"] # 0 /\ s["water_to_cation"] # 0
    THEN "RuntimeError: Cations are being added and removed."
    ELSE IF s["anion_to_water"] # 0 /\ s["water_to_anion"] # 0
    THEN "RuntimeError: Anions are being added and removed."
    ELSE "none"

----------------------------------------------------------------------------
(* OneDirectionChargeProposal._select_swaps_chenroux: the branch conditions *)

AnnihilatesPositive(i, f) == (i > 0 /\ 0 >= f) \/ (0 < f /\ f < i)
AnnihilatesNegative(i, f) == (i < 0 /\ 0 <= f) \/ (0 > f /\ f > i)
(* the neutral starting point forgotten *)
AddsNegativeNoNeutral(i, f) == 0 > i /\ i > f
AddsNegative(i, f) == (i = 0 /\ 0 > f) \/ (0 > i /\ i > f)
AddsPositive(i, f) == (i = 0 /\ 0 < f) \/ (0 < i /\ i < f)

----------------------------------------------------------------------------
(* The drive at rest: every group in state 0, the engine carrying the
   parameters of those states, no attempt under way. *)
ParametersOf(ts) == [g \in Groups |-> <<ts[g], ts[g], 0>>]

SnapshotOf(ts, pos, vel, nb, sv) ==
    [titrationStates |-> ts, positions |-> pos, velocities |-> vel,
     nonbonded |-> nb, stateVector |-> sv]

NoProposal(ts) ==
    [final_titration_states |-> ts, titration_group_indices |-> <<>>,
     log_ratio |-> 0]

DriveAtRest(n) ==
    /\ drive_state = "Idle"
    /\ titrationStates = [g \in Groups |-> 0]
    /\ positions = 0
    /\ velocities = 0
    /\ nonbonded = ParametersOf(titrationStates)
    /\ perturbations_per_trial = n
    /\ step = 0
    /\ snapshot = SnapshotOf(titrationStates, positions, velocities,
                             nonbonded, stateVector)
    /\ proposal = NoProposal(titrationStates)
    /\ drive_error = "none"

(* no state proposal object has been constructed *)
NoStrategy ==
    /\ strategy = "none"
    /\ strategy_args = [class |-> "none", arg |-> 0]
    /\ simultaneous_proposal_probability = 0
    /\ p_N = <<>>
    /\ N = 0
    /\ strategy_pc = "new"
    /\ residue_pool_indices = {}
    /\ random_random = 0
    /\ ndraw = 0
    /\ final_titration_states = <<>>
    /\ titration_group_indices = <<>>
    /\ strategy_log_ratio = 0
    /\ strategy_error = "none"

(* no population calculator has been constructed *)
NoCalculator ==
    /\ calculator = [class |-> "none"]
    /\ calculator_pH = 0
    /\ concentrations = <<>>
    /\ populations = <<>>

(* no template compiler has been constructed *)
NoRegistry ==
    /\ input_state_data = <<>>
    /\ state_templates = <<>>
    /\ registry_pc = "new"
    /\ registry_error = "none"

(* no SAMS engine has been constructed *)
NoSams ==
    /\ sams_group = 0
    /\ n_adaptations = 0
    /\ state_counts = <<>>
    /\ g_k = <<>>
    /\ sams_pc = "new"
    /\ sams_args = <<>>
    /\ zeta = <<>>
    /\ update = <<>>
    /\ target_deviation = <<>>
    /\ sams_error = "none"
    /\ calls_returned = 0
    /\ gain_factor = <<>>

Init ==
    /\ stateVector \in [Entities -> {WATER, CATION, ANION}]
    /\ delta_chem \in [value : 1..MaxChem,
                       unit : {"dimensionless", "energy", "irreducible"}]
    /\ beta = BetaValue
    /\ cation_weight \in 0..WeightDenom
    /\ anion_weight = WeightDenom - cation_weight
    /\ err_on_depletion \in BOOLEAN
    /\ DriveAtRest(0)
    /\ pc = "idle"
    /\ initial_charge = 0
    /\ final_charge = 0
    /\ net_charge_difference = 0
    /\ chem_potential = 0
    /\ cr_initial_charge = 0
    /\ charge_to_counter = 0
    /\ iterations = 0
    /\ swaps = ZeroSwaps
    /\ saltswap_residue_indices = <<>>
    /\ saltswap_state_pairs = <<>>
    /\ log_ratio = ZeroLogRatio
    /\ error = "none"
    /\ NoStrategy
    /\ NoSams
    /\ NoCalculator
    /\ NoRegistry

(* propose_swaps, lines 354-375: entry, unit reduction, dispatch *)
ProposeSwapsWith(ic, fc) ==
    /\ initial_charge' = ic
    /\ final_charge' = fc
    /\ net_charge_difference' = fc - ic
    /\ saltswap_residue_indices' = <<>>
    /\ saltswap_state_pairs' = <<>>
    /\ log_ratio' = ZeroLogRatio
    /\ swaps' = ZeroSwaps
    /\ iterations' = 0
    /\ IF delta_chem.unit = "irreducible"
       THEN /\ chem_potential' = delta_chem.value * beta
            /\ pc' = "raised"
            /\ error' = "ValueError: The chemical potential has irreducible units."
            /\ UNCHANGED <<cr_initial_charge, charge_to_counter>>
       ELSE /\ chem_potential' = IF delta_chem.unit = "energy"
                                 THEN delta_chem.value * beta
                                 ELSE delta_chem.value
            /\ error' = "none"
            /\ IF fc - ic # 0
               THEN /\ pc' = "chenroux"
                    /\ cr_initial_charge' = ic
                    /\ charge_to_counter' = fc - ic
               ELSE /\ pc' = "returned"
                    /\ UNCHANGED <<cr_initial_charge, charge_to_counter>>

(* a call of propose_swaps with any pair of charges *)
ProposeSwaps ==
    /\ pc = "idle"
    /\ \E ic \in Charges, fc \in Charges : ProposeSwapsWith(ic, fc)
    /\ UNCHANGED objectVars

(* one evaluation of the while condition of _select_swaps_chenroux and,
   when it holds, one pass through the loop body (lines 408-432) *)
SelectSwapsChenroux ==
    /\ pc = "chenroux"
    /\ IF Abs(charge_to_counter) > 0
       THEN /\ iterations' = iterations + 1
            /\ IF AnnihilatesPositive(cr_initial_charge, final_charge)
               THEN /\ swaps' = [swaps EXCEPT !["water_to_cation"] = @ + 1]
                    /\ charge_to_counter' = charge_to_counter + 1
                    /\ cr_initial_charge' = cr_initial_charge - 1
                    /\ UNCHANGED <<pc, error>>
               ELSE IF AnnihilatesNegative(cr_initial_charge, final_charge)
               THEN /\ swaps' = [swaps EXCEPT !["water_to_anion"] = @ + 1]
                    /\ charge_to_counter' = charge_to_counter - 1
                    /\ cr_initial_charge' = cr_initial_charge + 1
                    /\ UNCHANGED <<pc, error>>
               ELSE IF AddsNegative(cr_initial_charge, final_charge)
               THEN /\ swaps' = [swaps EXCEPT !["anion_to_water"] = @ + 1]
                    /\ charge_to_counter' = charge_to_counter + 1
                    /\ cr_initial_charge' = cr_initial_charge - 1
                    /\ UNCHANGED <<pc, error>>
               ELSE IF AddsPositive(cr_initial_charge, final_charge)
               THEN /\ swaps' = [swaps EXCEPT !["cation_to_water"] = @ + 1]
                    /\ charge_to_counter' = charge_to_counter - 1
                    /\ cr_initial_charge' = cr_initial_charge + 1
                    /\ UNCHANGED <<pc, error>>
               ELSE /\ pc' = "raised"
                    /\ error' = "ValueError: Impossible scenario reached."
                    /\ UNCHANGED <<swaps, charge_to_counter, cr_initial_charge>>
       ELSE /\ pc' = "validate"
            /\ UNCHANGED <<iterations, swaps, charge_to_counter,
                           cr_initial_charge, error>>
    /\ UNCHANGED <<objectVars, initial_charge, final_charge,
                   net_charge_difference, chem_potential,
                   saltswap_residue_indices, saltswap_state_pairs, log_ratio>>

(* propose_swaps, line 378 *)
ValidateSwaps ==
    /\ pc = "validate"
    /\ error' = ValidateSwapsError(swaps)
    /\ pc' = IF ValidateSwapsError(swaps) = "none" THEN "water_to_cation" ELSE "raised"
    /\ UNCHANGED <<objectVars, initial_charge, final_charge,
                   net_charge_difference, chem_potential, cr_initial_charge,
                   charge_to_counter, iterations, swaps,
                   saltswap_residue_indices, saltswap_state_pairs, log_ratio>>

----------------------------------------------------------------------------
(* OneDirectionChargeProposal.select_ions: the four conversion blocks.
   Each block is guarded by swaps[key] > 0; the sample is drawn first, then
   log_ratio receives the proposal probabilities and loses the work. *)

(* lines 270 and 273-274 *)
WaterToCationForward(m) == Comb(Cardinality(all_waters), m)
(* the m new cations left out of the reverse pool *)
WaterToCationReverseNoNew(m) == Comb(Cardinality(all_cations), m)
WaterToCationReverse(m) == Comb(Cardinality(all_cations) + m, m)
(* line 277 *)
WaterToCationWork == chem_potential * cation_weight

(* lines 287 and 290-291 *)
WaterToAnionForward(m) == Comb(Cardinality(all_waters), m)
WaterToAnionReverse(m) == Comb(Cardinality(all_anions) + m, m)
(* line 294 *)
WaterToAnionWork == chem_potential * anion_weight

(* lines 304 and 307-308 *)
CationToWaterForward(m) == Comb(Cardinality(all_cations), m)
CationToWaterReverse(m) == Comb(Cardinality(all_cations) + m, m)
(* line 311 *)
CationToWaterWork == 0 - chem_potential * cation_weight

(* lines 321 and 324-325 *)
AnionToWaterForward(m) == Comb(Cardinality(all_anions), m)
AnionToWaterReverse(m) == Comb(Cardinality(all_waters) + m, m)
(* line 328 *)
AnionToWaterWork == 0 - chem_potential * anion_weight

(* lines 266, 283, 300, 317 *)
WaterToCationPair == <<WATER, CATION>>
(* the pair of the block above copied *)
WaterToAnionPairCopied == <<WATER, CATION>>
WaterToAnionPair == <<WATER, ANION>>
(* a cation turned into an anion directly *)
CationToWaterPairDirect == <<CATION, ANION>>
CationToWaterPair == <<CATION, WATER>>
AnionToWaterPair == <<ANION, WATER>>

SelectBlock(key, pool, pair, fwd, rev, work, nextpc) ==
    /\ pc = key
    /\ IF swaps[key] > 0
       THEN \E choice \in RandomChoice(pool, swaps[key]) :
            IF choice.raised
            THEN /\ pc' = "raised"
                 /\ error' = "ValueError: Cannot take a larger sample than population"
                 /\ UNCHANGED <<saltswap_residue_indices, saltswap_state_pairs,
                                log_ratio>>
            ELSE /\ saltswap_residue_indices' =
                        saltswap_residue_indices \o choice.sample
                 /\ saltswap_state_pairs' =
                        saltswap_state_pairs \o [i \in 1..swaps[key] |-> pair]
                 /\ log_ratio' =
                        SubtractWork(AddLogProbabilities(log_ratio, fwd, rev), work)
                 /\ pc' = nextpc
                 /\ UNCHANGED error
       ELSE /\ pc' = nextpc
            /\ UNCHANGED <<saltswap_residue_indices, saltswap_state_pairs,
                           log_ratio, error>>
    /\ UNCHANGED <<objectVars, initial_charge, final_charge,
                   net_charge_difference, chem_potential, cr_initial_charge,
                   charge_to_counter, iterations, swaps>>

(* lines 263-279 *)
SelectWaterToCation ==
    SelectBlock("water_to_cation", all_waters, WaterToCationPair,
                WaterToCationForward(swaps["water_to_cation"]),
                WaterToCationReverse(swaps["water_to_cation"]),
                WaterToCationWork, "water_to_anion")

(* lines 280-296 *)
SelectWaterToAnion ==
    SelectBlock("water_to_anion", all_waters, WaterToAnionPair,
                WaterToAnionForward(swaps["water_to_anion"]),
                WaterToAnionReverse(swaps["water_to_anion"]),
                WaterToAnionWork, "cation_to_water")

(* lines 297-313 *)
SelectCationToWater ==
    SelectBlock("cation_to_water", all_cations, CationToWaterPair,
                CationToWaterForward(swaps["cation_to_water"]),
                CationToWaterReverse(swaps["cation_to_water"]),
                CationToWaterWork, "anion_to_water")

(* lines 314-331, then propose_swaps returns at line 383 *)
SelectAnionToWater ==
    SelectBlock("anion_to_water", all_anions, AnionToWaterPair,
                AnionToWaterForward(swaps["anion_to_water"]),
                AnionToWaterReverse(swaps["anion_to_water"]),
                AnionToWaterWork, "returned")

(* the caller receives the result (or the exception) and the frame of
   propose_swaps is gone; the proposal object and the swapper are as before *)
DropSwapFrame ==
    /\ pc' = "idle"
    /\ initial_charge' = 0
    /\ final_charge' = 0
    /\ net_charge_difference' = 0
    /\ chem_potential' = 0
    /\ cr_initial_charge' = 0
    /\ charge_to_counter' = 0
    /\ iterations' = 0
    /\ swaps' = ZeroSwaps
    /\ saltswap_residue_indices' = <<>>
    /\ saltswap_state_pairs' = <<>>
    /\ log_ratio' = ZeroLogRatio
    /\ error' = "none"

ReturnToCaller ==
    /\ pc \in {"returned", "raised"}
    /\ DropSwapFrame
    /\ UNCHANGED objectVars

Next ==
    \/ ProposeSwaps
    \/ SelectSwapsChenroux
    \/ ValidateSwaps
    \/ SelectWaterToCation
    \/ SelectWaterToAnion
    \/ SelectCationToWater
    \/ SelectAnionToWater
    \/ ReturnToCaller

Spec == Init /\ [][Next]_vars

----------------------------------------------------------------------------
(* _validate_swaps called on its own, on any dictionary of counts *)

InitValidate ==
    /\ stateVector = [e \in Entities |-> WATER]
    /\ delta_chem = [value |-> 1, unit |-> "dimensionless"]
    /\ beta = BetaValue
    /\ cation_weight = 0
    /\ anion_weight = WeightDenom
    /\ err_on_depletion = TRUE
    /\ DriveAtRest(0)
    /\ pc = "validate_call"
    /\ initial_charge = 0
    /\ final_charge = 0
    /\ net_charge_difference = 0
    /\ chem_potential = 0
    /\ cr_initial_charge = 0
    /\ charge_to_counter = 0
    /\ iterations = 0
    /\ swaps \in [SwapKeys -> 0..MaxCount]
    /\ saltswap_residue_indices = <<>>
    /\ saltswap_state_pairs = <<>>
    /\ log_ratio = ZeroLogRatio
    /\ error = "none"
    /\ NoStrategy
    /\ NoSams
    /\ NoCalculator
    /\ NoRegistry

ValidateSwapsCall ==
    /\ pc = "validate_call"
    /\ error' = ValidateSwapsError(swaps)
    /\ pc' = IF ValidateSwapsError(swaps) = "none" THEN "returned" ELSE "raised"
    /\ UNCHANGED <<objectVars, initial_charge, final_charge,
                   net_charge_difference, chem_potential, cr_initial_charge,
                   charge_to_counter, iterations, swaps,
                   saltswap_residue_indices, saltswap_state_pairs, log_ratio>>

NextValidate == ValidateSwapsCall

SpecValidate == InitValidate /\ [][NextValidate]_vars

----------------------------------------------------------------------------
(* The protonation-state drive: one update() attempt.
   Idle -> ProposingMove -> SwitchingProtocol -> Evaluating ->
   Committed | Reverted -> Idle. *)

(* net charge of state s of group g, from the group's template *)
StateCharge(g, s) == IF g % 2 = 1 THEN 0 - s ELSE 1 - s

(* drive.get_num_titration_states(g) *)
NumTitrationStates(g) == IF g % 2 = 1 THEN NStates ELSE NStates - 1

RECURSIVE TotalCharge(_, _)
TotalCharge(indices, ts) ==
    IF indices = <<>> THEN 0
    ELSE StateCharge(Head(indices), ts[Head(indices)])
         + TotalCharge(Tail(indices), ts)

(* UniformProposal.propose_states aliasing the drive's vector instead of
   copying it *)
UniformProposeStatesNoCopy(ts, pool) ==
    IF pool = {}
    THEN {[raised |-> TRUE, final_titration_states |-> ts,
           titration_group_indices |-> <<>>, log_ratio |-> 0,
           titrationStates |-> ts]}
    ELSE UNION {{[raised |-> FALSE,
                  final_titration_states |-> [ts EXCEPT ![g] = st],
                  titration_group_indices |-> <<g>>, log_ratio |-> 0,
                  titrationStates |-> [ts EXCEPT ![g] = st]] :
                    st \in 0..(NumTitrationStates(g) - 1)} : g \in pool}

(* a self transition never proposed *)
UniformProposeOtherStates(ts, pool) ==
    IF pool = {}
    THEN {[raised |-> TRUE, final_titration_states |-> ts,
           titration_group_indices |-> <<>>, log_ratio |-> 0,
           titrationStates |-> ts]}
    ELSE UNION {{[raised |-> FALSE,
                  final_titration_states |-> [ts EXCEPT ![g] = st],
                  titration_group_indices |-> <<g>>, log_ratio |-> 0,
                  titrationStates |-> ts] :
                    st \in (0..(NumTitrationStates(g) - 1)) \ {ts[g]}}
                : g \in pool}

(* UniformProposal.propose_states: its possible outcomes, with the drive's
   own vector as the call leaves it.  random.sample raises ValueError on an
   empty pool. *)
UniformProposeStates(ts, pool) ==
    IF pool = {}
    THEN {[raised |-> TRUE, final_titration_states |-> ts,
           titration_group_indices |-> <<>>, log_ratio |-> 0,
           titrationStates |-> ts]}
    ELSE UNION {{[raised |-> FALSE,
                  final_titration_states |-> [ts EXCEPT ![g] = st],
                  titration_group_indices |-> <<g>>, log_ratio |-> 0,
                  titrationStates |-> ts] :
                    st \in 0..(NumTitrationStates(g) - 1)} : g \in pool}

(* the nonbonded parameters of a group j substeps out of n on the way from
   state a to state b: a linear interpolation, equal to the parameters of a
   at j = 0 (or when a = b) and to those of b at j = n *)
Interpolated(a, b, j, n) ==
    IF a = b \/ j = 0 THEN <<a, a, 0>>
    ELSE IF j >= n THEN <<b, b, 0>>
    ELSE <<a, b, j>>

PerturbedParameters(old, new, j, n) ==
    [g \in Groups |-> Interpolated(old[g], new[g], j, n)]

(* the identity conversions of a plan applied to the water/ion vector *)
ApplySwaps(sv, indices, pairs) ==
    [e \in DOMAIN sv |->
        IF \E i \in 1..Len(indices) : indices[i] = e
        THEN pairs[CHOOSE i \in 1..Len(indices) : indices[i] = e][2]
        ELSE sv[e]]

(* one integration step of the engine *)
Integrated(x) == (x + 1) % (MaxConfig + 1)

(* what a revert puts back into the physics engine *)
Restored(snap) ==
    [positions |-> snap.positions, velocities |-> snap.velocities,
     nonbonded |-> snap.nonbonded, stateVector |-> snap.stateVector]

Revert(err) ==
    /\ positions' = Restored(snapshot).positions
    /\ velocities' = Restored(snapshot).velocities
    /\ nonbonded' = Restored(snapshot).nonbonded
    /\ stateVector' = Restored(snapshot).stateVector
    /\ drive_state' = "Reverted"
    /\ drive_error' = err

(* update(), steps 1-3: snapshot, eligible pool, proposal, and the request
   of a salt-swap plan when the charge of the changing groups changes; a
   proposal strategy that raises ends the attempt before anything is
   written *)
DriveProposeMove ==
    /\ drive_state = "Idle"
    /\ pc = "idle"
    /\ snapshot' = SnapshotOf(titrationStates, positions, velocities,
                              nonbonded, stateVector)
    /\ \E pool \in SUBSET Groups :
       \E outcome \in UniformProposeStates(titrationStates, pool) :
          /\ titrationStates' = outcome.titrationStates
          /\ IF outcome.raised
             THEN /\ drive_state' = "Reverted"
                  /\ drive_error' = "InsufficientPoolError"
                  /\ UNCHANGED <<positions, velocities, nonbonded, stateVector,
                                 proposal, swapLocals>>
             ELSE /\ proposal' =
                        [final_titration_states |-> outcome.final_titration_states,
                         titration_group_indices |-> outcome.titration_group_indices,
                         log_ratio |-> outcome.log_ratio]
                  /\ drive_error' = "none"
                  /\ UNCHANGED <<positions, velocities, nonbonded, stateVector>>
                  /\ IF TotalCharge(outcome.titration_group_indices,
                                    outcome.final_titration_states)
                        # TotalCharge(outcome.titration_group_indices,
                                      titrationStates)
                     THEN /\ ProposeSwapsWith(
                                TotalCharge(outcome.titration_group_indices,
                                            titrationStates),
                                TotalCharge(outcome.titration_group_indices,
                                            outcome.final_titration_states))
                          /\ drive_state' = "ProposingMove"
                     ELSE /\ drive_state' = "SwitchingProtocol"
                          /\ UNCHANGED swapLocals
    /\ step' = 0
    /\ UNCHANGED <<proposalVars, perturbations_per_trial>>

(* update(), step 3: the plan's conversions go into the engine before the
   switching work is computed *)
DriveApplySwaps ==
    /\ drive_state = "ProposingMove"
    /\ pc = "returned"
    /\ stateVector' = ApplySwaps(stateVector, saltswap_residue_indices,
                                 saltswap_state_pairs)
    /\ drive_state' = "SwitchingProtocol"
    /\ UNCHANGED <<proposalVars, swapLocals, titrationStates, positions,
                   velocities, nonbonded, perturbations_per_trial, step,
                   snapshot, proposal, drive_error>>

(* the salt-swap strategy raised: the attempt reverts *)
DriveSwapFailed ==
    /\ drive_state = "ProposingMove"
    /\ pc = "raised"
    /\ Revert("DepletionError")
    /\ UNCHANGED <<proposalVars, swapLocals, titrationStates,
                   perturbations_per_trial, step, snapshot, proposal>>

(* update(), step 4: the instantaneous switch, or one NCMC substep
   (perturb the parameters, evaluate the energy, integrate); an energy
   evaluation that raises reverts the attempt *)
DriveSwitch ==
    /\ drive_state = "SwitchingProtocol"
    /\ \E energy_raises \in BOOLEAN :
        IF energy_raises
        THEN /\ Revert("NumericalError")
             /\ UNCHANGED step
        ELSE IF perturbations_per_trial = 0
        THEN /\ nonbonded' = ParametersOf(proposal.final_titration_states)
             /\ drive_state' = "Evaluating"
             /\ UNCHANGED <<positions, velocities, stateVector, step,
                            drive_error>>
        ELSE /\ nonbonded' = PerturbedParameters(titrationStates,
                                 proposal.final_titration_states, step + 1,
                                 perturbations_per_trial)
             /\ positions' = Integrated(positions)
             /\ velocities' = Integrated(velocities)
             /\ step' = step + 1
             /\ drive_state' = IF step + 1 = perturbations_per_trial
                               THEN "Evaluating" ELSE "SwitchingProtocol"
             /\ UNCHANGED <<stateVector, drive_error>>
    /\ UNCHANGED <<proposalVars, swapLocals, titrationStates,
                   perturbations_per_trial, snapshot, proposal>>

(* update(), steps 5-6: the acceptance test; the uniform draw against the
   acceptance probability either commits or reverts *)
DriveEvaluate ==
    /\ drive_state = "Evaluating"
    /\ \E accept \in BOOLEAN :
        IF accept
        THEN /\ titrationStates' = proposal.final_titration_states
             /\ drive_state' = "Committed"
             /\ UNCHANGED <<positions, velocities, nonbonded, stateVector,
                            drive_error>>
        ELSE /\ Revert("none")
             /\ UNCHANGED titrationStates
    /\ UNCHANGED <<proposalVars, swapLocals, perturbations_per_trial, step,
                   snapshot, proposal>>

(* the attempt is over: its locals are dropped *)
DriveFinish ==
    /\ drive_state \in {"Committed", "Reverted"}
    /\ drive_state' = "Idle"
    /\ DropSwapFrame
    /\ step' = 0
    /\ snapshot' = SnapshotOf(titrationStates, positions, velocities,
                              nonbonded, stateVector)
    /\ proposal' = NoProposal(titrationStates)
    /\ drive_error' = "none"
    /\ UNCHANGED <<proposalVars, stateVector, titrationStates, positions,
                   velocities, nonbonded, perturbations_per_trial>>

(* the caller's loop advances the dynamics between update() calls *)
ExternalDynamics ==
    /\ drive_state = "Idle"
    /\ positions' = Integrated(positions)
    /\ velocities' = Integrated(velocities)
    /\ snapshot' = SnapshotOf(titrationStates, positions', velocities',
                              nonbonded, stateVector)
    /\ UNCHANGED <<proposalVars, swapLocals, stateVector, drive_state,
                   titrationStates, nonbonded, perturbations_per_trial, step,
                   proposal, drive_error>>

InitDrive ==
    /\ stateVector \in [Entities -> {WATER, CATION, ANION}]
    /\ delta_chem = [value |-> 1, unit |-> "dimensionless"]
    /\ beta = BetaValue
    /\ cation_weight = 1
    /\ anion_weight = WeightDenom - cation_weight
    /\ err_on_depletion = TRUE
    /\ perturbations_per_trial \in 0..MaxSteps
    /\ DriveAtRest(perturbations_per_trial)
    /\ pc = "idle"
    /\ initial_charge = 0
    /\ final_charge = 0
    /\ net_charge_difference = 0
    /\ chem_potential = 0
    /\ cr_initial_charge = 0
    /\ charge_to_counter = 0
    /\ iterations = 0
    /\ swaps = ZeroSwaps
    /\ saltswap_residue_indices = <<>>
    /\ saltswap_state_pairs = <<>>
    /\ log_ratio = ZeroLogRatio
    /\ error = "none"
    /\ NoStrategy
    /\ NoSams
    /\ NoCalculator
    /\ NoRegistry

NextDrive ==
    \/ DriveProposeMove
    \/ SelectSwapsChenroux
    \/ ValidateSwaps
    \/ SelectWaterToCation
    \/ SelectWaterToAnion
    \/ SelectCationToWater
    \/ SelectAnionToWater
    \/ DriveApplySwaps
    \/ DriveSwapFailed
    \/ DriveSwitch
    \/ DriveEvaluate
    \/ DriveFinish
    \/ ExternalDynamics

SpecDrive == InitDrive /\ [][NextDrive]_vars

----------------------------------------------------------------------------
(* The state proposal strategies: UniformProposal, DoubleProposal and
   CategoricalProposal.  Probabilities are multiples of 1/ProbDenom and their
   sums are exact. *)

RECURSIVE SumSeq(_)
SumSeq(s) == IF s = <<>> THEN 0 ELSE Head(s) + SumSeq(Tail(s))

SampleError == "ValueError: Sample larger than population or is negative"
CountError == "TypeError: unsupported operand type(s) for *"
SumError == "ValueError: p_N should sum to 1.0"

(* random.sample(population, k): its possible outcomes.  It raises ValueError
   when k exceeds the population, and otherwise returns one of the ordered
   selections of k distinct members. *)
(* a selection that may repeat a member *)
RandomSampleRepeating(population, k) ==
    IF k > Cardinality(population)
    THEN {[raised |-> TRUE, sample |-> <<>>]}
    ELSE {[raised |-> FALSE, sample |-> s] : s \in [1..k -> population]}

(* a selection cut down to the population instead of an error *)
RandomSampleTruncating(population, k) ==
    IF k > Cardinality(population)
    THEN {[raised |-> FALSE, sample |-> s] :
            s \in {t \in [1..Cardinality(population) -> population] :
                     \A i, j \in DOMAIN t : i # j => t[i] # t[j]}}
    ELSE {[raised |-> FALSE, sample |-> s] :
            s \in {t \in [1..k -> population] :
                     \A i, j \in 1..k : i # j => t[i] # t[j]}}

RandomSample(population, k) ==
    IF k > Cardinality(population)
    THEN {[raised |-> TRUE, sample |-> <<>>]}
    ELSE {[raised |-> FALSE, sample |-> s] :
            s \in {t \in [1..k -> population] :
                     \A i, j \in 1..k : i # j => t[i] # t[j]}}

(* the loop over titration_group_indices: each selected group gets
   random.choice(range(drive.get_num_titration_states(group))) in the copy;
   the other groups keep the state they have *)
ChosenStates(ts, indices) ==
    {f \in [Groups -> 0..(NStates - 1)] :
        \A g \in Groups :
            IF \E i \in 1..Len(indices) : indices[i] = g
            THEN f[g] < NumTitrationStates(g)
            ELSE f[g] = ts[g]}

(* the states chosen in the drive's own vector, the deepcopy left out *)
SampleAndChooseNoCopy(ts, pool, nd) ==
    UNION {IF smp.raised
           THEN {[raised |-> TRUE, error |-> SampleError, ndraw |-> nd,
                  final_titration_states |-> ts,
                  titration_group_indices |-> <<>>, log_ratio |-> 0,
                  titrationStates |-> ts]}
           ELSE {[raised |-> FALSE, error |-> "none", ndraw |-> nd,
                  final_titration_states |-> f,
                  titration_group_indices |-> smp.sample, log_ratio |-> 0,
                  titrationStates |-> f] : f \in ChosenStates(ts, smp.sample)}
           : smp \in RandomSample(pool, nd)}

(* copy the drive's vector, sample nd groups of the pool, choose a state for
   each, return with a log ratio of 0.0 *)
SampleAndChoose(ts, pool, nd) ==
    UNION {IF smp.raised
           THEN {[raised |-> TRUE, error |-> SampleError, ndraw |-> nd,
                  final_titration_states |-> ts,
                  titration_group_indices |-> <<>>, log_ratio |-> 0,
                  titrationStates |-> ts]}
           ELSE {[raised |-> FALSE, error |-> "none", ndraw |-> nd,
                  final_titration_states |-> f,
                  titration_group_indices |-> smp.sample, log_ratio |-> 0,
                  titrationStates |-> ts] : f \in ChosenStates(ts, smp.sample)}
           : smp \in RandomSample(pool, nd)}

(* DoubleProposal.propose_states: ndraw, with u the value of random.random()
   and p the simultaneous proposal probability *)
(* the test of the pool size left out *)
DoubleNdrawAnyPool(pool, u, p) == IF u < p THEN 2 ELSE 1

DoubleNdraw(pool, u, p) == IF Cardinality(pool) > 1 /\ u < p THEN 2 ELSE 1

DoubleProposeStates(ts, pool, u, p) ==
    SampleAndChoose(ts, pool, DoubleNdraw(pool, u, p))

(* CategoricalProposal.__init__: the test on the sum of p_N *)
(* no test *)
CategoricalInitAccepts(p) == FALSE

CategoricalInitRaises(p) == ~(SumSeq(p) = ProbDenom)

(* np.random.choice(self.N, 1, p=self.p_N) + 1: the counts that can be drawn *)
CategoricalNdraw(p, n) == {i \in 1..n : p[i] > 0}

(* CategoricalProposal.propose_states.  The count it hands to random.sample
   is the one-element array that np.random.choice returns.  A count above
   the pool size fails the size test of random.sample.  A count within the
   pool size reaches `[None] * k`, where an array for k makes the product
   elementwise and raises TypeError; the outcome that an integer count gives
   is kept beside it. *)
CategoricalProposeStates(ts, pool, p, n) ==
    UNION {SampleAndChoose(ts, pool, nd)
           \cup (IF nd > Cardinality(pool) THEN {}
                 ELSE {[raised |-> TRUE, error |-> CountError, ndraw |-> nd,
                        final_titration_states |-> ts,
                        titration_group_indices |-> <<>>, log_ratio |-> 0,
                        titrationStates |-> ts]})
           : nd \in CategoricalNdraw(p, n)}

(* the arguments the constructors are given *)
Probabilities == 0..ProbDenom
PNs == UNION {[1..n -> Probabilities] : n \in 1..MaxN}

ConstructUniform ==
    /\ strategy_pc = "new"
    /\ strategy' = "uniform"
    /\ strategy_args' = [class |-> "uniform", arg |-> 0]
    /\ strategy_pc' = "idle"
    /\ UNCHANGED <<simultaneous_proposal_probability, p_N, N,
                   residue_pool_indices, random_random, ndraw,
                   final_titration_states, titration_group_indices,
                   strategy_log_ratio, strategy_error>>

ConstructDouble ==
    /\ strategy_pc = "new"
    /\ \E p \in Probabilities :
        /\ strategy_args' = [class |-> "double", arg |-> p]
        /\ simultaneous_proposal_probability' = p
    /\ strategy' = "double"
    /\ strategy_pc' = "idle"
    /\ UNCHANGED <<p_N, N, residue_pool_indices, random_random, ndraw,
                   final_titration_states, titration_group_indices,
                   strategy_log_ratio, strategy_error>>

ConstructCategorical ==
    /\ strategy_pc = "new"
    /\ \E p \in PNs :
        /\ strategy_args' = [class |-> "categorical", arg |-> p]
        /\ IF CategoricalInitRaises(p)
           THEN /\ strategy_error' = SumError
                /\ strategy_pc' = "failed"
                /\ UNCHANGED <<strategy, p_N, N>>
           ELSE /\ strategy' = "categorical"
                /\ p_N' = p
                /\ N' = Len(p)
                /\ strategy_pc' = "idle"
                /\ UNCHANGED strategy_error
    /\ UNCHANGED <<simultaneous_proposal_probability, residue_pool_indices,
                   random_random, ndraw, final_titration_states,
                   titration_group_indices, strategy_log_ratio>>

(* what every propose_states leaves behind *)
StrategyOutcome(pool, u, nd, raised, err, final, indices, lr, ts) ==
    /\ residue_pool_indices' = pool
    /\ random_random' = u
    /\ ndraw' = nd
    /\ strategy_pc' = IF raised THEN "raised" ELSE "returned"
    /\ strategy_error' = err
    /\ final_titration_states' = final
    /\ titration_group_indices' = indices
    /\ strategy_log_ratio' = lr
    /\ titrationStates' = ts
    /\ UNCHANGED <<strategy, strategy_args, simultaneous_proposal_probability,
                   p_N, N>>

UniformProposeStatesCall ==
    /\ strategy_pc = "idle"
    /\ strategy = "uniform"
    /\ \E pool \in SUBSET Groups :
       \E o \in UniformProposeStates(titrationStates, pool) :
          StrategyOutcome(pool, 0, 1, o.raised,
                          IF o.raised THEN SampleError ELSE "none",
                          o.final_titration_states, o.titration_group_indices,
                          o.log_ratio, o.titrationStates)

DoubleProposeStatesCall ==
    /\ strategy_pc = "idle"
    /\ strategy = "double"
    /\ \E pool \in SUBSET Groups :
       \E u \in 0..(ProbDenom - 1) :
       \E o \in DoubleProposeStates(titrationStates, pool, u,
                                    simultaneous_proposal_probability) :
          StrategyOutcome(pool, u, o.ndraw, o.raised, o.error,
                          o.final_titration_states, o.titration_group_indices,
                          o.log_ratio, o.titrationStates)

CategoricalProposeStatesCall ==
    /\ strategy_pc = "idle"
    /\ strategy = "categorical"
    /\ \E pool \in SUBSET Groups :
       \E o \in CategoricalProposeStates(titrationStates, pool, p_N, N) :
          StrategyOutcome(pool, 0, o.ndraw, o.raised, o.error,
                          o.final_titration_states, o.titration_group_indices,
                          o.log_ratio, o.titrationStates)

(* the caller is done with the result, or with the exception *)
StrategyReturn ==
    /\ strategy_pc \in {"returned", "raised"}
    /\ strategy_pc' = "idle"
    /\ residue_pool_indices' = {}
    /\ random_random' = 0
    /\ ndraw' = 0
    /\ final_titration_states' = <<>>
    /\ titration_group_indices' = <<>>
    /\ strategy_log_ratio' = 0
    /\ strategy_error' = "none"
    /\ UNCHANGED <<strategy, strategy_args, simultaneous_proposal_probability,
                   p_N, N, titrationStates>>

(* everything but the proposal object, its frame and the drive's vector *)
strategyRest == <<stateVector, delta_chem, beta, cation_weight, anion_weight,
                  err_on_depletion, swapLocals, drive_state, positions,
                  velocities, nonbonded, perturbations_per_trial, step,
                  snapshot, proposal, drive_error, samsVars,
                  calculatorVars, registryVars>>

(* the drive idle in one of two state vectors *)
InitStrategy ==
    /\ stateVector = [e \in Entities |-> WATER]
    /\ delta_chem = [value |-> 1, unit |-> "dimensionless"]
    /\ beta = BetaValue
    /\ cation_weight = 0
    /\ anion_weight = WeightDenom
    /\ err_on_depletion = TRUE
    /\ drive_state = "Idle"
    /\ titrationStates \in {[g \in Groups |-> 0],
                            [g \in Groups |-> NumTitrationStates(g) - 1]}
    /\ positions = 0
    /\ velocities = 0
    /\ nonbonded = ParametersOf(titrationStates)
    /\ perturbations_per_trial = 0
    /\ step = 0
    /\ snapshot = SnapshotOf(titrationStates, positions, velocities,
                             nonbonded, stateVector)
    /\ proposal = NoProposal(titrationStates)
    /\ drive_error = "none"
    /\ pc = "idle"
    /\ initial_charge = 0
    /\ final_charge = 0
    /\ net_charge_difference = 0
    /\ chem_potential = 0
    /\ cr_initial_charge = 0
    /\ charge_to_counter = 0
    /\ iterations = 0
    /\ swaps = ZeroSwaps
    /\ saltswap_residue_indices = <<>>
    /\ saltswap_state_pairs = <<>>
    /\ log_ratio = ZeroLogRatio
    /\ error = "none"
    /\ NoStrategy
    /\ NoSams
    /\ NoCalculator
    /\ NoRegistry

NextStrategy ==
    \/ ConstructUniform /\ UNCHANGED <<strategyRest, titrationStates>>
    \/ ConstructDouble /\ UNCHANGED <<strategyRest, titrationStates>>
    \/ ConstructCategorical /\ UNCHANGED <<strategyRest, titrationStates>>
    \/ UniformProposeStatesCall /\ UNCHANGED strategyRest
    \/ DoubleProposeStatesCall /\ UNCHANGED strategyRest
    \/ CategoricalProposeStatesCall /\ UNCHANGED strategyRest
    \/ StrategyReturn /\ UNCHANGED strategyRest

SpecStrategy == InitStrategy /\ [][NextStrategy]_vars

----------------------------------------------------------------------------
(* Self-adjusted mixture sampling: SelfAdjustedMixtureSampling of
   protons/calibration.py.

   Numbers.  The constructor gives every state of a group of K states the
   target weight 1/K, so the gain of one call is the same for every state of
   the group: either the target weight 1/K, or the power term
   1/pow(n, b) or 1/(n - end_of_burnin + pow(end_of_burnin, b)), which min()
   selects by a comparison that is decided here on integers, b being the
   fraction b/BDenom.  A free energy is kept exactly, as the record [q, t]:
   q / SimplexDenom plus the sum over the power terms d in DOMAIN t of
   t[d] / SimplexDenom times d.  A visitation count is the function that
   gives for the call number n the multiple of sqrt(n) / SimplexDenom it
   holds.  The weights w_j of the global scheme are multiples of
   1/SimplexDenom that sum to one. *)

Coef(f, d) == IF d \in DOMAIN f THEN f[d] ELSE 0

(* f + sign * g on sparse coefficient functions *)
Combine(f, g, sign) ==
    LET dom == {d \in (DOMAIN f) \cup (DOMAIN g) :
                    Coef(f, d) + sign * Coef(g, d) # 0}
    IN IF dom = {} THEN <<>>
       ELSE [d \in dom |-> Coef(f, d) + sign * Coef(g, d)]

ZeroValue == [q |-> 0, t |-> <<>>]
Plus(a, b) == [q |-> a.q + b.q, t |-> Combine(a.t, b.t, 1)]
Minus(a, b) == [q |-> a.q - b.q, t |-> Combine(a.t, b.t, 0 - 1)]

RECURSIVE Power(_, _)
Power(x, k) == IF k = 0 THEN 1 ELSE x * Power(x, k - 1)

(* len(titrationGroups[g]['titration_states']) *)
StatesOf(g) == 0..(NumTitrationStates(g) - 1)

(* _gain_factor, with n = self.n_adaptations and K the number of states of
   the group: the exception it raises, or the gain every state gets *)
BadBeta == "ValueError: b needs to be between 1/2 and 1"
BadStage == "ValueError: Invalid SAMS adaptation stage specified"
ZeroDivision == "ZeroDivisionError: float division by zero"
BadScheme == "ValueError: Unknown adaptation scheme"
BadIndex == "IndexError: index is out of bounds"
BadShape == "ValueError: operands could not be broadcast together"

PiGain == [kind |-> "pi"]
PowGain(stage, n, e, b, sign) ==
    [kind |-> "pow", stage |-> stage, n |-> n, end_of_burnin |-> e, b |-> b,
     sign |-> sign]

(* _gain_factor without the min() against the target weight *)
GainFactorNoMin(n, K, b, stage, e) ==
    IF ~(BDenom <= 2 * b /\ b <= BDenom)
    THEN [error |-> BadBeta, gain |-> PiGain]
    ELSE IF stage = "burn-in"
    THEN [error |-> "none", gain |-> PowGain(stage, n, 0, b, 1)]
    ELSE IF stage = "slow-gain"
    THEN [error |-> "none", gain |-> PowGain(stage, n, e, b, 1)]
    ELSE [error |-> BadStage, gain |-> PiGain]

GainFactor(n, K, b, stage, e) ==
    IF ~(BDenom <= 2 * b /\ b <= BDenom)
    THEN [error |-> BadBeta, gain |-> PiGain]
    ELSE IF stage = "burn-in"
    THEN [error |-> "none",
          gain |-> IF Power(n, b) <= Power(K, BDenom)
                   THEN PiGain ELSE PowGain(stage, n, 0, b, 1)]
    ELSE IF stage = "slow-gain"
    THEN IF e - n >= 0 /\ Power(e, b) = Power(e - n, BDenom)
         THEN [error |-> ZeroDivision, gain |-> PiGain]
         ELSE IF e - n > 0 /\ Power(e, b) < Power(e - n, BDenom)
         THEN [error |-> "none", gain |-> PowGain(stage, n, e, b, 0 - 1)]
         ELSE IF K + e - n >= 0 /\ Power(e, b) <= Power(K + e - n, BDenom)
         THEN [error |-> "none", gain |-> PiGain]
         ELSE [error |-> "none", gain |-> PowGain(stage, n, e, b, 1)]
    ELSE [error |-> BadStage, gain |-> PiGain]

(* gain times c / SimplexDenom, for a group of K states *)
Scaled(gain, c, K) ==
    IF c = 0 THEN ZeroValue
    ELSE IF gain.kind = "pi" THEN [q |-> c \div K, t |-> <<>>]
    ELSE [q |-> 0, t |-> (gain :> c)]

(* sqrt(n) times c / SimplexDenom.  The weight subtracted; no weight *)
SqrtTimesNegative(n, c) == IF c = 0 THEN <<>> ELSE (n :> 0 - c)

SqrtTimesZero(n, c) == <<>>

SqrtTimes(n, c) == IF c = 0 THEN <<>> ELSE (n :> c)

(* _binary_update, lines 173-178: (1 / pi_j) * delta, times the gain.  The
   update of every state *)
BinaryUpdateVectorEverywhere(K, current_state, gain) ==
    [j \in 0..(K - 1) |-> Scaled(gain, K * SimplexDenom, K)]

BinaryUpdateVector(K, current_state, gain) ==
    [j \in 0..(K - 1) |->
        IF j = current_state THEN Scaled(gain, K * SimplexDenom, K)
        ELSE ZeroValue]

(* _global_update, lines 208-215: (1 / pi_j) * (w_j / pi_j), times the gain;
   w[j] is w_j in units of 1/SimplexDenom *)
GlobalUpdateVector(K, w, gain) ==
    [j \in 0..(K - 1) |-> Scaled(gain, K * K * w[j], K)]

(* the values exp(log_w_j) can take: the reduced potentials come from the
   engine and are not constrained *)
RECURSIVE SumFn(_, _)
SumFn(f, k) == IF k < 0 THEN 0 ELSE f[k] + SumFn(f, k - 1)

Weights(K) ==
    {w \in [0..(K - 1) -> 0..SimplexDenom] : SumFn(w, K - 1) = SimplexDenom}

(* zeta_t = zeta - zeta[0].  The reference not subtracted *)
RecentredNot(z) == z

Recentred(z) == [j \in DOMAIN z |-> Minus(z[j], z[0])]

(* the value adapt_zetas returns: sum(abs(target - Nk)), with
   Nk = state_counts / state_counts.sum(), left unevaluated *)
TargetDeviation(counts, K) == [state_counts |-> counts, nstates |-> K]

(* adapt_zetas: what a call leaves behind.  n0, counts and gk are the
   engine's n_adaptations and state_counts and the drive's g_k before the
   call, ts the drive's titration states. *)
Failed(err, n, counts, gk, z, u) ==
    [error |-> err, n_adaptations |-> n, state_counts |-> counts, g_k |-> gk,
     zeta |-> z, update |-> u, target_deviation |-> <<>>]

(* lines 97-108 *)
Finish(n, counts, gk, group_index, z, u) ==
    LET K == NumTitrationStates(group_index)
        new_gk == [gk EXCEPT ![group_index] =
                        Recentred([j \in 0..(K - 1) |-> Plus(z[j], u[j])])]
    IN IF Cardinality(DOMAIN counts) # K
       THEN Failed(BadShape, n, counts, new_gk, z, u)
       ELSE [error |-> "none", n_adaptations |-> n, state_counts |-> counts,
             g_k |-> new_gk, zeta |-> z, update |-> u,
             target_deviation |-> TargetDeviation(counts, K)]

AdaptZetasOutcomes(n0, counts, gk, ts, scheme, b, stage, e, group_index) ==
    LET n == n0 + 1
        K == NumTitrationStates(group_index)
        z == gk[group_index]
        gf == GainFactor(n, K, b, stage, e)
        current_state == ts[group_index]
    IN IF scheme = "binary"
       THEN IF gf.error # "none"
            THEN {Failed(gf.error, n, counts, gk, z, <<>>)}
            ELSE IF current_state \notin DOMAIN counts
            THEN {Failed(BadIndex, n, counts, gk, z, <<>>)}
            ELSE {Finish(n,
                         [counts EXCEPT ![current_state] =
                              Combine(@, SqrtTimes(n, SimplexDenom), 1)],
                         gk, group_index, z,
                         BinaryUpdateVector(K, current_state, gf.gain))}
       ELSE IF scheme = "global"
       THEN IF gf.error # "none"
            THEN {Failed(gf.error, n, counts, gk, z, <<>>)}
            ELSE IF Cardinality(DOMAIN counts) # K
            THEN {Failed(BadShape, n, counts, gk, z, <<>>)}
            ELSE {Finish(n,
                         [j \in DOMAIN counts |->
                              Combine(counts[j], SqrtTimes(n, w[j]), 1)],
                         gk, group_index, z,
                         GlobalUpdateVector(K, w, gf.gain)) : w \in Weights(K)}
       ELSE {Failed(BadScheme, n, counts, gk, z, <<>>)}

(* the arguments adapt_zetas is given *)
Schemes == {"binary", "global", "unknown"}
Stages == {"burn-in", "slow-gain", "unknown"}
Betas == 1..(BDenom + 1)
Burnins == {0, MaxBurnin}

(* the g_k the drive starts with: zero, or state s at s + 1 *)
InitialGk(c) ==
    [g \in Groups |-> [s \in StatesOf(g) |->
                          [q |-> c * (s + 1) * SimplexDenom, t |-> <<>>]]]

(* SelfAdjustedMixtureSampling.__init__ *)
ConstructSams ==
    /\ sams_pc = "new"
    /\ \E group_index \in Groups :
        /\ sams_group' = group_index
        /\ state_counts' = [s \in StatesOf(group_index) |-> <<>>]
    /\ n_adaptations' = 0
    /\ sams_pc' = "idle"
    /\ UNCHANGED <<g_k, sams_args, zeta, update, target_deviation,
                   sams_error, calls_returned, gain_factor,
                   titrationStates>>

AdaptZetas ==
    /\ sams_pc = "idle"
    /\ n_adaptations < MaxAdapt
    /\ \E scheme \in Schemes, b \in Betas, stage \in Stages, e \in Burnins,
          group_index \in Groups :
       \E o \in AdaptZetasOutcomes(n_adaptations, state_counts, g_k,
                                   titrationStates, scheme, b, stage, e,
                                   group_index) :
          /\ sams_args' = [scheme |-> scheme, b |-> b, stage |-> stage,
                           end_of_burnin |-> e, group_index |-> group_index]
          /\ n_adaptations' = o.n_adaptations
          /\ state_counts' = o.state_counts
          /\ g_k' = o.g_k
          /\ zeta' = o.zeta
          /\ update' = o.update
          /\ target_deviation' = o.target_deviation
          /\ sams_error' = o.error
          /\ sams_pc' = IF o.error = "none" THEN "returned" ELSE "raised"
          /\ calls_returned' = IF o.error = "none" THEN calls_returned + 1
                                ELSE calls_returned
          /\ gain_factor' = IF scheme \in {"binary", "global"}
                     THEN GainFactor(n_adaptations + 1,
                                     NumTitrationStates(group_index),
                                     b, stage, e)
                     ELSE <<>>
    /\ UNCHANGED <<sams_group, titrationStates>>

(* the caller is done with the result, or with the exception *)
SamsReturn ==
    /\ sams_pc \in {"returned", "raised"}
    /\ sams_pc' = "idle"
    /\ sams_args' = <<>>
    /\ zeta' = <<>>
    /\ update' = <<>>
    /\ target_deviation' = <<>>
    /\ sams_error' = "none"
    /\ gain_factor' = <<>>
    /\ UNCHANGED <<sams_group, n_adaptations, state_counts, g_k,
                   calls_returned, titrationStates>>

(* the drive's update() between two adaptations: one group may have moved *)
SamsDriveUpdate ==
    /\ sams_pc = "idle"
    /\ \E g \in Groups, st \in 0..(NStates - 1) :
        /\ st < NumTitrationStates(g)
        /\ st # titrationStates[g]
        /\ titrationStates' = [titrationStates EXCEPT ![g] = st]
    /\ UNCHANGED samsVars

(* everything but the engine, its frame and the drive's vector *)
samsRest == <<stateVector, delta_chem, beta, cation_weight, anion_weight,
              err_on_depletion, swapLocals, drive_state, positions,
              velocities, nonbonded, perturbations_per_trial, step,
              snapshot, proposal, drive_error, strategyVars,
              calculatorVars, registryVars>>

(* a drive at rest in pure water, and no proposal strategy *)
SamsEnvironment(n) ==
    /\ stateVector = [e \in Entities |-> WATER]
    /\ delta_chem = [value |-> 1, unit |-> "dimensionless"]
    /\ beta = BetaValue
    /\ cation_weight = 0
    /\ anion_weight = WeightDenom
    /\ err_on_depletion = TRUE
    /\ drive_state = "Idle"
    /\ titrationStates = [g \in Groups |-> 0]
    /\ positions = 0
    /\ velocities = 0
    /\ nonbonded = ParametersOf(titrationStates)
    /\ perturbations_per_trial = n
    /\ step = 0
    /\ snapshot = SnapshotOf(titrationStates, positions, velocities,
                             nonbonded, stateVector)
    /\ proposal = NoProposal(titrationStates)
    /\ drive_error = "none"
    /\ pc = "idle"
    /\ initial_charge = 0
    /\ final_charge = 0
    /\ net_charge_difference = 0
    /\ chem_potential = 0
    /\ cr_initial_charge = 0
    /\ charge_to_counter = 0
    /\ iterations = 0
    /\ swaps = ZeroSwaps
    /\ saltswap_residue_indices = <<>>
    /\ saltswap_state_pairs = <<>>
    /\ log_ratio = ZeroLogRatio
    /\ error = "none"
    /\ NoStrategy

InitSams ==
    /\ \E n \in {0, MaxSteps} : SamsEnvironment(n)
    /\ NoCalculator
    /\ NoRegistry
    /\ sams_group = 0
    /\ n_adaptations = 0
    /\ state_counts = <<>>
    /\ g_k \in {InitialGk(c) : c \in 0..1}
    /\ sams_pc = "new"
    /\ sams_args = <<>>
    /\ zeta = <<>>
    /\ update = <<>>
    /\ target_deviation = <<>>
    /\ sams_error = "none"
    /\ calls_returned = 0
    /\ gain_factor = <<>>

NextSams ==
    \/ ConstructSams /\ UNCHANGED samsRest
    \/ AdaptZetas /\ UNCHANGED samsRest
    \/ SamsReturn /\ UNCHANGED samsRest
    \/ SamsDriveUpdate /\ UNCHANGED samsRest

SpecSams == InitSams /\ [][NextSams]_vars

(* _gain_factor on its own: an engine that has made n_adaptations calls, the
   last of them in progress, asked for the gain of its group *)
GainFactorCall ==
    /\ sams_pc = "idle"
    /\ \E b \in Betas, stage \in Stages, e \in 0..MaxGainSteps :
        /\ sams_args' = [scheme |-> "binary", b |-> b, stage |-> stage,
                         end_of_burnin |-> e, group_index |-> sams_group]
        /\ gain_factor' = GainFactor(n_adaptations,
                                     NumTitrationStates(sams_group),
                                     b, stage, e)
        /\ sams_error' = gain_factor'.error
        /\ sams_pc' = IF gain_factor'.error = "none" THEN "returned"
                      ELSE "raised"
    /\ UNCHANGED <<sams_group, n_adaptations, state_counts, g_k, zeta,
                   update, target_deviation, calls_returned,
                   titrationStates>>

(* every call so far has raised before it touched the counts (line 84
   counts those calls too), or none was made *)
InitGain ==
    /\ SamsEnvironment(0)
    /\ NoCalculator
    /\ NoRegistry
    /\ sams_group \in Groups
    /\ n_adaptations \in 1..MaxGainSteps
    /\ state_counts = [s \in StatesOf(sams_group) |-> <<>>]
    /\ g_k = InitialGk(0)
    /\ sams_pc = "idle"
    /\ sams_args = <<>>
    /\ zeta = <<>>
    /\ update = <<>>
    /\ target_deviation = <<>>
    /\ sams_error = "none"
    /\ calls_returned = 0
    /\ gain_factor = <<>>

NextGain == GainFactorCall /\ UNCHANGED samsRest

SpecGain == InitGain /\ [][NextGain]_vars

----------------------------------------------------------------------------
(* The population calculators of calibration.py *)

(* a pH and a pKa are kept in units of 1 / PHScale *)
PHScale == 10
pka_d == 65
pka_e == 71
pka == 40

PHs == 0..MaxPH

(* pow(10.0, x): kept exactly, as the exponent x in units of 1 / PHScale.
   Two of them are the same number exactly when their exponents are. *)
Pow10(x) == [exp |-> x]

(* the literal 1.0 = pow(10.0, 0) *)
One == Pow10(0)

(* num / (den[1] + ... + den[n]) / over *)
Quotient(num, den, over) == [num |-> num, den |-> den, over |-> over]

(* Histidine.__init__ *)
HistidineInit(pH) ==
    [class |-> "Histidine", kd |-> Pow10(pH - pka_d), ke |-> Pow10(pH - pka_e)]

hip_concentration(self) == Quotient(One, <<self.ke, self.kd, One>>, 1)

(* the epsilon form computed from kd *)
hie_concentration_from_kd(self) ==
    Quotient(self.kd, <<self.ke, self.kd, One>>, 1)

hie_concentration(self) == Quotient(self.ke, <<self.ke, self.kd, One>>, 1)

(* the delta form computed from ke *)
hid_concentration_from_ke(self) ==
    Quotient(self.ke, <<self.ke, self.kd, One>>, 1)

hid_concentration(self) == Quotient(self.kd, <<self.ke, self.kd, One>>, 1)

HistidinePopulations(self) ==
    <<hip_concentration(self), hid_concentration(self),
      hie_concentration(self)>>

(* Aspartic4.__init__ *)
Aspartic4Init(pH) == [class |-> "Aspartic4", k |-> Pow10(pH - pka)]

protonated_concentration(self) == Quotient(One, <<self.k, One>>, 1)

deprotonated_concenration(self) == Quotient(self.k, <<self.k, One>>, 1)

(* the protonated concentration not split over the four rotamers *)
Aspartic4PopulationsUnsplit(self) ==
    LET acid == protonated_concentration(self)
    IN <<deprotonated_concenration(self), acid, acid, acid, acid>>

Aspartic4Populations(self) ==
    LET acid == [protonated_concentration(self) EXCEPT !.over = 4]
    IN <<deprotonated_concenration(self), acid, acid, acid, acid>>

ConstructHistidine ==
    /\ calculator.class = "none"
    /\ \E pH \in PHs :
        /\ calculator' = HistidineInit(pH)
        /\ calculator_pH' = pH
    /\ UNCHANGED <<concentrations, populations>>

ConstructAspartic4 ==
    /\ calculator.class = "none"
    /\ \E pH \in PHs :
        /\ calculator' = Aspartic4Init(pH)
        /\ calculator_pH' = pH
    /\ UNCHANGED <<concentrations, populations>>

(* every concentration method and populations() called once *)
AskHistidine ==
    /\ calculator.class = "Histidine"
    /\ populations = <<>>
    /\ concentrations' = [hip |-> hip_concentration(calculator),
                          hie |-> hie_concentration(calculator),
                          hid |-> hid_concentration(calculator)]
    /\ populations' = HistidinePopulations(calculator)
    /\ UNCHANGED <<calculator, calculator_pH>>

AskAspartic4 ==
    /\ calculator.class = "Aspartic4"
    /\ populations = <<>>
    /\ concentrations'
          = [protonated |-> protonated_concentration(calculator),
             deprotonated |-> deprotonated_concenration(calculator)]
    /\ populations' = Aspartic4Populations(calculator)
    /\ UNCHANGED <<calculator, calculator_pH>>

(* everything but the calculator *)
calculatorRest == <<stateVector, delta_chem, beta, cation_weight,
                    anion_weight, err_on_depletion, swapLocals, drive_state,
                    titrationStates, positions, velocities, nonbonded,
                    perturbations_per_trial, step, snapshot, proposal,
                    drive_error, strategyVars, samsVars, registryVars>>

InitCalculator ==
    /\ SamsEnvironment(0)
    /\ NoSams
    /\ NoRegistry
    /\ NoCalculator

NextCalculator ==
    \/ ConstructHistidine /\ UNCHANGED calculatorRest
    \/ ConstructAspartic4 /\ UNCHANGED calculatorRest
    \/ AskHistidine /\ UNCHANGED calculatorRest
    \/ AskAspartic4 /\ UNCHANGED calculatorRest

SpecCalculator == InitCalculator /\ [][NextCalculator]_vars

----------------------------------------------------------------------------
(* The state registry of ligand_tautomers.py *)

(* state['net_charge'] as the caller gives it: an int, a float or a str;
   twice is two times its value, so that halves can be given *)
NetCharges ==
    {v \in [kind : {"int", "float", "str"},
            twice : (0 - 2 * MaxNetCharge)..(2 * MaxNetCharge)] :
        v.kind = "int" => v.twice % 2 = 0}

IntError == "ValueError: invalid literal for int() with base 10"
MinError == "ValueError: min() arg is an empty sequence"

(* int(net_charge) raises for a str that is no integer literal *)
IntRaises(net_charge) == net_charge.kind = "str" /\ net_charge.twice % 2 # 0

(* int(net_charge): a float is truncated towards zero *)
IntOf(net_charge) ==
    IF net_charge.twice >= 0 THEN net_charge.twice \div 2
    ELSE 0 - ((0 - net_charge.twice) \div 2)

(* min(charges) *)
RECURSIVE MinOf(_)
MinOf(charges) ==
    IF Len(charges) = 1 THEN charges[1]
    ELSE LET m == MinOf(Tail(charges))
         IN IF charges[1] < m THEN charges[1] ELSE m

(* _State.__init__ *)
StateTemplate(index, net_charge) ==
    [index |-> index, net_charge |-> net_charge, proton_count |-> 0 - 1]

(* the charge itself taken as the number of protons *)
set_number_of_protons_no_offset(state, min_charge) ==
    [state EXCEPT !.proton_count = IntOf(state.net_charge)]

(* _State.set_number_of_protons *)
set_number_of_protons(state, min_charge) ==
    [state EXCEPT !.proton_count = IntOf(state.net_charge) - min_charge]

(* _complete_state_registry, lines 783-799: the templates it leaves and the
   exception it raises, for the input states data *)
CompleteStateRegistry(data) ==
    LET bad == {i \in DOMAIN data : IntRaises(data[i])}
        first_bad == CHOOSE i \in bad : \A j \in bad : i <= j
        appended == IF bad = {} THEN Len(data) ELSE first_bad - 1
        templates == [i \in 1..appended |-> StateTemplate(i - 1, data[i])]
        charges == [i \in 1..appended |-> IntOf(data[i])]
    IN IF bad # {}
       THEN [error |-> IntError, state_templates |-> templates]
       ELSE IF data = <<>>
       THEN [error |-> MinError, state_templates |-> templates]
       ELSE [error |-> "none",
             state_templates |->
                [i \in 1..appended |->
                    set_number_of_protons(templates[i], MinOf(charges))]]

CompleteStateRegistryCall ==
    /\ registry_pc = "new"
    /\ LET o == CompleteStateRegistry(input_state_data)
       IN /\ state_templates' = o.state_templates
          /\ registry_error' = o.error
          /\ registry_pc' = IF o.error = "none" THEN "completed" ELSE "raised"
    /\ UNCHANGED input_state_data

(* everything but the registry *)
registryRest == <<stateVector, delta_chem, beta, cation_weight,
                  anion_weight, err_on_depletion, swapLocals, drive_state,
                  titrationStates, positions, velocities, nonbonded,
                  perturbations_per_trial, step, snapshot, proposal,
                  drive_error, strategyVars, samsVars, calculatorVars>>

(* the compiler constructed with its input, the registry not yet completed *)
InitRegistry ==
    /\ SamsEnvironment(0)
    /\ NoSams
    /\ NoCalculator
    /\ input_state_data \in UNION {[1..n -> NetCharges] : n \in 0..MaxTemplates}
    /\ state_templates = <<>>
    /\ registry_pc = "new"
    /\ registry_error = "none"

NextRegistry == CompleteStateRegistryCall /\ UNCHANGED registryRest

SpecRegistry == InitRegistry /\ [][NextRegistry]_vars

----------------------------------------------------------------------------
(* Properties *)

ChoiceError == "ValueError: Cannot take a larger sample than population"

ValidateErrors ==
    {"RuntimeError: Opposing charge ions are added.",
     "RuntimeError: Opposing charge ions are removed.",
     "RuntimeError: Cations are being added and removed.",
     "RuntimeError: Anions are being added and removed."}

(* the ion charge one (initial, final) pair adds to the solvent *)
PairIonCharge(pair) ==
    IF pair = <<WATER, CATION>> \/ pair = <<ANION, WATER>> THEN 1
    ELSE IF pair = <<WATER, ANION>> \/ pair = <<CATION, WATER>> THEN 0 - 1
    ELSE 0

RECURSIVE NetIonCharge(_)
NetIonCharge(pairs) ==
    IF pairs = <<>> THEN 0
    ELSE PairIonCharge(Head(pairs)) + NetIonCharge(Tail(pairs))

(* the entities a conversion type draws from *)
SourcePool(key) ==
    IF key \in {"water_to_cation", "water_to_anion"}
    THEN {e \in Entities : stateVector[e] = WATER}
    ELSE IF key = "cation_to_water"
    THEN {e \in Entities : stateVector[e] = CATION}
    ELSE {e \in Entities : stateVector[e] = ANION}

NWater == Cardinality({e \in Entities : stateVector[e] = WATER})
NCation == Cardinality({e \in Entities : stateVector[e] = CATION})
NAnion == Cardinality({e \in Entities : stateVector[e] = ANION})

(* after = before + ln(fwd) - ln(rev) in the logarithmic part, and finite *)
LogAdded(after, before, fwd, rev) ==
    /\ after.num > 0
    /\ after.den > 0
    /\ after.num * before.den * rev = after.den * before.num * fwd

(* C1: every plan propose_swaps returns has a net ion charge change equal to
   minus the charge change of the residue, final_charge - initial_charge. *)
C1_PlanOffsetsCharge ==
    pc = "returned" =>
        NetIonCharge(saltswap_state_pairs) = 0 - (final_charge - initial_charge)

C1_Witness ==
    /\ pc = "returned"
    /\ initial_charge = 2
    /\ final_charge = 0 - 1
    /\ Len(saltswap_state_pairs) = 3

(* C2: every pass through the loop of _select_swaps_chenroux lowers the
   absolute residual charge by exactly 1 and stays in the loop, the loop is
   left after exactly |final_charge - initial_charge| passes, and the
   "Impossible scenario reached" branch is never taken. *)
C2_ChenrouxTerminates ==
    /\ [][(pc = "chenroux" /\ Abs(charge_to_counter) > 0) =>
            /\ pc' = "chenroux"
            /\ Abs(charge_to_counter') = Abs(charge_to_counter) - 1]_vars
    /\ [](pc = "validate" => iterations = Abs(final_charge - initial_charge))
    /\ [](error # "ValueError: Impossible scenario reached.")

C2_Witness ==
    /\ pc = "validate"
    /\ iterations = 2 * MaxCharge
    /\ initial_charge > 0
    /\ final_charge < 0

(* C3: the counts of _select_swaps_chenroux never hold two opposing ion
   additions, two opposing ion removals, or both directions of one species,
   and _validate_swaps never raises inside propose_swaps. *)
C3_OneDirection ==
    /\ ~(swaps["water_to_cation"] # 0 /\ swaps["water_to_anion"] # 0)
    /\ ~(swaps["cation_to_water"] # 0 /\ swaps["anion_to_water"] # 0)
    /\ ~(swaps["cation_to_water"] # 0 /\ swaps["water_to_cation"] # 0)
    /\ ~(swaps["anion_to_water"] # 0 /\ swaps["water_to_anion"] # 0)
    /\ error \notin ValidateErrors

C3_Witness ==
    /\ pc = "water_to_cation"
    /\ initial_charge > 0
    /\ final_charge < 0
    /\ swaps["water_to_cation"] > 0
    /\ swaps["anion_to_water"] > 0

(* C4: _validate_swaps raises for every dictionary with both counts of one
   of the four listed pairs nonzero, and returns for every dictionary with
   at most one nonzero count. *)
C4_ValidateSwaps ==
    pc \in {"returned", "raised"} =>
        /\ (\/ (swaps["water_to_cation"] # 0 /\ swaps["water_to_anion"] # 0)
            \/ (swaps["cation_to_water"] # 0 /\ swaps["anion_to_water"] # 0)
            \/ (swaps["cation_to_water"] # 0 /\ swaps["water_to_cation"] # 0)
            \/ (swaps["anion_to_water"] # 0 /\ swaps["water_to_anion"] # 0))
           => (pc = "raised" /\ error \in ValidateErrors)
        /\ Cardinality({k \in SwapKeys : swaps[k] # 0}) <= 1
           => (pc = "returned" /\ error = "none")

C4_Witness ==
    /\ pc = "raised"
    /\ swaps["anion_to_water"] # 0
    /\ swaps["water_to_anion"] # 0
    /\ swaps["water_to_cation"] = 0
    /\ swaps["cation_to_water"] = 0

(* C5: every update() attempt ends either Committed, with the registry's
   current-state vector equal to the proposal's final states, or Reverted,
   with the registry's vector and the engine's positions, velocities,
   nonbonded parameters and water/ion identities as they were before the
   attempt; outside an attempt the engine never carries half-applied
   parameters. *)
C5_CommittedOrReverted ==
    /\ [][(drive_state # "Idle" /\ drive_state' = "Idle")
            => drive_state \in {"Committed", "Reverted"}]_vars
    /\ [](drive_state = "Committed" =>
            titrationStates = proposal.final_titration_states)
    /\ [](drive_state = "Reverted" =>
            /\ titrationStates = snapshot.titrationStates
            /\ positions = snapshot.positions
            /\ velocities = snapshot.velocities
            /\ nonbonded = snapshot.nonbonded
            /\ stateVector = snapshot.stateVector)
    /\ [](drive_state \in {"Idle", "Committed", "Reverted"} =>
            \A g \in Groups :
                nonbonded[g] = <<titrationStates[g], titrationStates[g], 0>>)

C5_Witness ==
    /\ drive_state = "Reverted"
    /\ drive_error = "NumericalError"
    /\ step >= 1
    /\ pc = "returned"
    /\ Len(saltswap_residue_indices) >= 1
    /\ proposal.final_titration_states # titrationStates

(* C6: with err_on_depletion = True, a conversion type that needs more
   entities than its source pool holds makes propose_swaps raise, and no
   plan is returned that takes more entities of a kind than there are. *)
C6_DepletionRaises ==
    /\ [][(/\ err_on_depletion
            /\ pc \in SwapKeys
            /\ swaps[pc] > Cardinality(SourcePool(pc)))
           => (pc' = "raised" /\ error' = ChoiceError)]_vars
    /\ [](err_on_depletion /\ pc = "returned" =>
            \A k \in SwapKeys : swaps[k] <= Cardinality(SourcePool(k)))

C6_Witness ==
    /\ pc = "raised"
    /\ err_on_depletion
    /\ error = ChoiceError
    /\ swaps["cation_to_water"] > NCation

(* C7: with err_on_depletion = False, propose_swaps does not fail on a
   depleted pool. *)
C7_ToleratesDepletion ==
    ~err_on_depletion => ~(pc = "raised" /\ error = ChoiceError)

(* C8: the work subtracted from log_ratio is the sum over the conversions of
   the plan, count times the work of one conversion for each type. *)
C8_WorkPerConversion ==
    pc = "returned" =>
        log_ratio.work =
              swaps["water_to_cation"] * (chem_potential * cation_weight)
            + swaps["water_to_anion"] * (chem_potential * anion_weight)
            - swaps["cation_to_water"] * (chem_potential * cation_weight)
            - swaps["anion_to_water"] * (chem_potential * anion_weight)

(* C9: a water_to_cation conversion of count m adds
   log C(n_water, m) - log C(n_cation + m, m) to log_ratio, and a
   water_to_anion conversion adds log C(n_water, m) - log C(n_anion + m, m). *)
C9_WaterToIonLogRatio ==
    [][/\ (pc = "water_to_cation" /\ pc' = "water_to_anion"
              /\ swaps["water_to_cation"] > 0)
          => LogAdded(log_ratio', log_ratio,
                      Comb(NWater, swaps["water_to_cation"]),
                      Comb(NCation + swaps["water_to_cation"],
                           swaps["water_to_cation"]))
       /\ (pc = "water_to_anion" /\ pc' = "cation_to_water"
              /\ swaps["water_to_anion"] > 0)
          => LogAdded(log_ratio', log_ratio,
                      Comb(NWater, swaps["water_to_anion"]),
                      Comb(NAnion + swaps["water_to_anion"],
                           swaps["water_to_anion"]))]_vars

C9_Witness ==
    /\ pc = "water_to_anion"
    /\ swaps["water_to_cation"] = 2
    /\ Len(saltswap_state_pairs) = 2
    /\ NCation = 1
    /\ log_ratio.den = 3

(* C10: a cation_to_water conversion of count m adds
   log C(n_cation, m) - log C(n_water + m, m) to log_ratio, and an
   anion_to_water conversion adds log C(n_anion, m) - log C(n_water + m, m). *)
C10_IonToWaterLogRatio ==
    [][/\ (pc = "cation_to_water" /\ pc' = "anion_to_water"
              /\ swaps["cation_to_water"] > 0)
          => LogAdded(log_ratio', log_ratio,
                      Comb(NCation, swaps["cation_to_water"]),
                      Comb(NWater + swaps["cation_to_water"],
                           swaps["cation_to_water"]))
       /\ (pc = "anion_to_water" /\ pc' = "returned"
              /\ swaps["anion_to_water"] > 0)
          => LogAdded(log_ratio', log_ratio,
                      Comb(NAnion, swaps["anion_to_water"]),
                      Comb(NWater + swaps["anion_to_water"],
                           swaps["anion_to_water"]))]_vars

----------------------------------------------------------------------------
(* The state proposal strategies *)

StrategyCalled == strategy_pc \in {"returned", "raised"}

PoolSize == Cardinality(residue_pool_indices)

Selected == {titration_group_indices[i] : i \in DOMAIN titration_group_indices}

(* C11: for UniformProposal, DoubleProposal and CategoricalProposal, the
   group indices of every proposal that propose_states returns are pairwise
   distinct, are members of residue_pool_indices and are no more numerous
   than the pool. *)
C11_SelectionWithinPool ==
    strategy_pc = "returned" =>
        /\ \A i, j \in DOMAIN titration_group_indices :
              i # j => titration_group_indices[i] # titration_group_indices[j]
        /\ Selected \subseteq residue_pool_indices
        /\ Len(titration_group_indices) <= PoolSize

(* a proposal of two groups out of a pool of two *)
C11_Witness ==
    /\ strategy_pc = "returned"
    /\ strategy = "double"
    /\ Len(titration_group_indices) = 2
    /\ PoolSize = 2

(* C12: with a pool of exactly one group, CategoricalProposal.propose_states
   always returns a proposal that changes exactly one group, whatever count
   its distribution draws. *)
C12_DegeneratesToOne ==
    (StrategyCalled /\ strategy = "categorical" /\ PoolSize = 1) =>
        /\ strategy_pc = "returned"
        /\ Len(titration_group_indices) = 1

(* C13: a strategy asked for more groups than the pool holds (a categorical
   count above the pool size, or any strategy on an empty pool) fails with
   an error, returns no proposal and leaves the drive's state vector as it
   was. *)
C13_InsufficientPoolRaises ==
    [][(strategy_pc = "idle" /\ strategy_pc' # "idle"
        /\ (residue_pool_indices' = {} \/ ndraw' > PoolSize'))
       => /\ strategy_pc' = "raised"
          /\ strategy_error' = SampleError
          /\ titration_group_indices' = <<>>
          /\ titrationStates' = titrationStates]_vars

(* a categorical count of two on a pool of one *)
C13_Witness ==
    /\ strategy_pc = "raised"
    /\ strategy = "categorical"
    /\ ndraw = 2
    /\ PoolSize = 1

(* C14: DoubleProposal.propose_states selects two distinct groups only when
   the pool has at least two members and the random draw is below
   simultaneous_proposal_probability; in every other case it selects one
   group, in particular on a pool of one whatever the probability. *)
C14_DoubleSelection ==
    (StrategyCalled /\ strategy = "double") =>
        /\ (ndraw = 2 \/ Len(titration_group_indices) = 2) =>
              /\ PoolSize >= 2
              /\ random_random < simultaneous_proposal_probability
              /\ Cardinality(Selected) = 2
        /\ ~(PoolSize >= 2
             /\ random_random < simultaneous_proposal_probability) =>
              /\ ndraw = 1
              /\ PoolSize >= 1 =>
                    /\ strategy_pc = "returned"
                    /\ Len(titration_group_indices) = 1
        /\ PoolSize = 1 =>
              /\ strategy_pc = "returned"
              /\ Len(titration_group_indices) = 1

(* a pool of one and a draw below the probability: one group *)
C14_Witness ==
    /\ strategy_pc = "returned"
    /\ strategy = "double"
    /\ PoolSize = 1
    /\ random_random < simultaneous_proposal_probability
    /\ Len(titration_group_indices) = 1

(* C15: UniformProposal.propose_states selects exactly one group of the
   pool, gives it a state index in 0..num_states-1 and returns a log ratio
   of 0; every such index, the group's current state included, is a possible
   outcome. *)
C15_UniformSelection ==
    /\ (StrategyCalled /\ strategy = "uniform" /\ PoolSize >= 1) =>
          /\ strategy_pc = "returned"
          /\ Len(titration_group_indices) = 1
          /\ titration_group_indices[1] \in residue_pool_indices
          /\ final_titration_states[titration_group_indices[1]]
                \in 0..(NumTitrationStates(titration_group_indices[1]) - 1)
          /\ \A g \in Groups \ {titration_group_indices[1]} :
                final_titration_states[g] = titrationStates[g]
          /\ strategy_log_ratio = 0
    /\ (strategy_pc = "idle" /\ strategy = "uniform") =>
          \A pool \in (SUBSET Groups) \ {{}} :
          \A g \in pool :
          \A st \in 0..(NumTitrationStates(g) - 1) :
             \E o \in UniformProposeStates(titrationStates, pool) :
                /\ ~o.raised
                /\ o.titration_group_indices = <<g>>
                /\ o.final_titration_states[g] = st

(* a self transition *)
C15_Witness ==
    /\ strategy_pc = "returned"
    /\ strategy = "uniform"
    /\ final_titration_states = titrationStates
    /\ titrationStates[titration_group_indices[1]] > 0

(* C16: constructing a CategoricalProposal raises if and only if the entries
   of p_N do not sum to 1.0; when it raises no object with p_N set exists,
   and otherwise the object stores p_N and N = len(p_N). *)
C16_CategoricalInit ==
    (strategy_args.class = "categorical") =>
        /\ strategy_pc = "failed" <=> SumSeq(strategy_args.arg) # ProbDenom
        /\ strategy_pc = "failed" =>
              /\ strategy_error = SumError
              /\ strategy = "none"
              /\ p_N = <<>>
        /\ strategy_pc # "failed" =>
              /\ strategy = "categorical"
              /\ p_N = strategy_args.arg
              /\ N = Len(strategy_args.arg)

(* two entries that sum to less than one *)
C16_Witness ==
    /\ strategy_pc = "failed"
    /\ Len(strategy_args.arg) = 2
    /\ SumSeq(strategy_args.arg) < ProbDenom

----------------------------------------------------------------------------
(* Self-adjusted mixture sampling *)

SamsCalled == sams_pc = "idle" /\ sams_pc' \in {"returned", "raised"}

(* the visitation counts the engine keeps for a group: the one array
   self.state_counts, allocated for the group the constructor was given *)
VisitationCounts(g) == IF g = sams_group THEN state_counts ELSE <<>>

(* C17: after every adapt_zetas call that returns, whatever the scheme and
   the stage, the g_k of state 0 of the adapted group is exactly 0, and the
   g_k of every other state is its old zeta plus its update, minus the old
   zeta plus the update of state 0. *)
C17_ReferenceStateZero ==
    sams_pc = "returned" =>
        /\ g_k[sams_args.group_index][0] = ZeroValue
        /\ \A j \in StatesOf(sams_args.group_index) :
              g_k[sams_args.group_index][j]
                 = Minus(Plus(zeta[j], update[j]), Plus(zeta[0], update[0]))

(* a global update that moves state 0 away from a nonzero start *)
C17_Witness ==
    /\ sams_pc = "returned"
    /\ sams_args.scheme = "global"
    /\ zeta[0] # ZeroValue
    /\ update[0] # ZeroValue
    /\ update[1] # update[0]

(* C18: adapt_zetas called with b outside [0.5, 1.0], an unknown scheme or an
   unknown stage raises before any state mutation: n_adaptations,
   state_counts and every g_k are after the failed call what they were
   before it. *)
C18_ConfigErrorBeforeMutation ==
    [][(SamsCalled
        /\ (~(BDenom <= 2 * sams_args'.b /\ sams_args'.b <= BDenom)
            \/ sams_args'.scheme \notin {"binary", "global"}
            \/ sams_args'.stage \notin {"burn-in", "slow-gain"}))
       => /\ sams_pc' = "raised"
          /\ sams_error' \in {BadBeta, BadScheme, BadStage}
          /\ n_adaptations' = n_adaptations
          /\ state_counts' = state_counts
          /\ g_k' = g_k]_vars

(* C19: visitation counts are kept per group: an adapt_zetas call for one
   group leaves the visitation counts of every other group unchanged. *)
C19_CountsPerGroup ==
    [][SamsCalled
       => \A g \in Groups \ {sams_args'.group_index} :
             VisitationCounts(g)' = VisitationCounts(g)]_vars

(* C20: in the binary scheme the update is nonzero only at the occupied
   state of the group, where it is gain / target weight; the difference
   g_k[j] - g_k[k] of any two other states is unchanged by the call; only
   the visitation count of the occupied state changes, by
   sqrt(n_adaptations). *)
C20_BinaryUpdate ==
    [][(sams_pc = "idle" /\ sams_pc' = "returned"
        /\ sams_args'.scheme = "binary")
       => LET g == sams_args'.group_index
              K == NumTitrationStates(g)
              occupied == titrationStates[g]
              gain == GainFactor(n_adaptations', K, sams_args'.b,
                                 sams_args'.stage,
                                 sams_args'.end_of_burnin).gain
          IN /\ \A j \in StatesOf(g) \ {occupied} : update'[j] = ZeroValue
             /\ update'[occupied] = Scaled(gain, K * SimplexDenom, K)
             /\ update'[occupied] # ZeroValue
             /\ \A j, k \in StatesOf(g) \ {occupied} :
                   Minus(g_k'[g][j], g_k'[g][k]) = Minus(g_k[g][j], g_k[g][k])
             /\ \A s \in (DOMAIN state_counts) \ {occupied} :
                   state_counts'[s] = state_counts[s]
             /\ state_counts'[occupied]
                   = Combine(state_counts[occupied],
                             SqrtTimes(n_adaptations', SimplexDenom), 1)]_vars

(* a binary update by a power-law gain at a state other than the reference *)
C20_Witness ==
    /\ sams_pc = "returned"
    /\ sams_args.scheme = "binary"
    /\ titrationStates[sams_args.group_index] # 0
    /\ update[titrationStates[sams_args.group_index]].t # <<>>

(* C21: n_adaptations is 0 at construction, grows by exactly 1 on every
   adapt_zetas call and is changed by nothing else; after k calls of
   adapt_zetas that returned it equals k. *)
C21_AdaptationCounter ==
    [][/\ (sams_pc = "new" /\ sams_pc' = "idle") => n_adaptations' = 0
       /\ SamsCalled => n_adaptations' = n_adaptations + 1
       /\ (sams_pc # "new" /\ ~SamsCalled) => n_adaptations' = n_adaptations
       /\ n_adaptations' = calls_returned']_vars

(* C22: no entry of state_counts ever decreases, and state_counts changes
   only inside adapt_zetas. *)
C22_CountsNeverDecrease ==
    [][sams_pc # "new"
       => /\ DOMAIN state_counts' = DOMAIN state_counts
          /\ \A s \in DOMAIN state_counts :
             \A n \in (DOMAIN state_counts[s]) \cup (DOMAIN state_counts'[s]) :
                Coef(state_counts'[s], n) >= Coef(state_counts[s], n)
          /\ state_counts' # state_counts => SamsCalled]_vars

(* a second global update has added to an entry the first one added to *)
C22_Witness ==
    /\ sams_pc = "returned"
    /\ sams_args.scheme = "global"
    /\ n_adaptations >= 2
    /\ \E s \in DOMAIN state_counts :
          Cardinality(DOMAIN state_counts[s]) >= 2

(* the visitation counts sum to a positive number *)
CountsSumPositive(counts) ==
    /\ \A s \in DOMAIN counts : \A n \in DOMAIN counts[s] : counts[s][n] >= 0
    /\ \E s \in DOMAIN counts : \E n \in DOMAIN counts[s] : counts[s][n] > 0

(* C23: after a drive update(), an adapt_zetas call with scheme 'binary' and
   one with scheme 'global' each complete without error and return the
   deviation of the visitation histogram from the target, with a drive of
   instantaneous switches and with a drive of NCMC switches alike; the
   state_counts the call divides by its sum have a positive sum, on the
   first call of a fresh engine too. *)
C23_AdaptationCompletes ==
    [][(/\ SamsCalled
        /\ sams_args'.scheme \in {"binary", "global"}
        /\ BDenom <= 2 * sams_args'.b /\ sams_args'.b <= BDenom
        /\ sams_args'.stage \in {"burn-in", "slow-gain"}
        /\ sams_args'.end_of_burnin <= n_adaptations'
        /\ sams_args'.group_index = sams_group)
       => /\ sams_pc' = "returned"
          /\ sams_error' = "none"
          /\ CountsSumPositive(state_counts')
          /\ target_deviation'
                = TargetDeviation(state_counts',
                                  NumTitrationStates(sams_group))]_vars

(* the first call of a fresh engine, global, after an update() of an NCMC
   drive moved the group *)
C23_Witness ==
    /\ sams_pc = "returned"
    /\ n_adaptations = 1
    /\ sams_args.scheme = "global"
    /\ sams_args.group_index = sams_group
    /\ titrationStates[sams_group] # 0
    /\ perturbations_per_trial > 0

(* 0 < gain <= 1 / K, from the numbers the gain is made of: 1 / n^b in
   burn-in and 1 / (n - e + e^b) in slow-gain, b in units of 1 / BDenom *)
GainInRange(gain, K) ==
    \/ gain.kind = "pi"
    \/ /\ gain.kind = "pow"
       /\ gain.stage = "burn-in"
       /\ Power(gain.n, gain.b) >= Power(K, BDenom)
    \/ /\ gain.kind = "pow"
       /\ gain.stage = "slow-gain"
       /\ \/ gain.end_of_burnin - gain.n < 0
          \/ Power(gain.end_of_burnin, gain.b)
                > Power(gain.end_of_burnin - gain.n, BDenom)
       /\ \/ K + gain.end_of_burnin - gain.n <= 0
          \/ Power(gain.end_of_burnin, gain.b)
                >= Power(K + gain.end_of_burnin - gain.n, BDenom)

(* _gain_factor was called with b in [0.5, 1.0] and a known stage *)
GainAsked ==
    /\ sams_pc \in {"returned", "raised"}
    /\ gain_factor # <<>>
    /\ BDenom <= 2 * sams_args.b /\ sams_args.b <= BDenom
    /\ sams_args.stage \in {"burn-in", "slow-gain"}

(* C30: in every adapt_zetas call with b in [0.5, 1.0], for either stage,
   any n_adaptations >= 1 and any end_of_burnin >= 0, the gain factor is
   finite and satisfies 0 < gain <= target weight. *)
C30_GainInRange ==
    GainAsked =>
        /\ gain_factor.error = "none"
        /\ GainInRange(gain_factor.gain,
                       NumTitrationStates(sams_args.group_index))

(* C30, amended: the same for every end_of_burnin with
   0 <= end_of_burnin <= n_adaptations, the iteration at which burn-in was
   ended; then no division by zero is made, the gain is positive and at most
   the target weight. *)
C30_GainInRangeAfterBurnin ==
    (GainAsked /\ sams_args.end_of_burnin <= n_adaptations) =>
        /\ gain_factor.error = "none"
        /\ GainInRange(gain_factor.gain,
                       NumTitrationStates(sams_args.group_index))

(* a slow-gain call some iterations after a burn-in of several, where the
   power law is below the target weight *)
C30_Witness ==
    /\ GainAsked
    /\ sams_args.stage = "slow-gain"
    /\ sams_args.end_of_burnin >= 2
    /\ sams_args.end_of_burnin < n_adaptations
    /\ gain_factor.error = "none"
    /\ gain_factor.gain.kind = "pow"

(* C28: propose_states of every strategy leaves the drive's own
   titrationStates vector unchanged, and the final-state vector it returns
   equals the drive's current states at every group index that is not in
   the returned list of changing groups. *)
C28_ProposalFrame ==
    [][(strategy_pc = "idle" /\ strategy_pc' \in {"returned", "raised"})
       => /\ titrationStates' = titrationStates
          /\ strategy_pc' = "returned" =>
                \A g \in Groups \ Selected' :
                    final_titration_states'[g] = titrationStates[g]]_vars

(* one group of a pool of two proposed away from its state, the other group
   not in its first state *)
C28_Witness ==
    /\ strategy_pc = "returned"
    /\ strategy = "double"
    /\ PoolSize = 2
    /\ Len(titration_group_indices) = 1
    /\ final_titration_states[titration_group_indices[1]]
          # titrationStates[titration_group_indices[1]]
    /\ \E g \in Groups \ Selected : titrationStates[g] # 0

(* C29: every plan propose_swaps returns has exactly
   |final_charge - initial_charge| entries (an empty plan with a log ratio
   of 0.0 when the charges are equal); no entity index appears twice in it;
   the initial kind of each pair is the entity's current kind in
   stateVector; every pair has water as its initial or its final kind and
   is never a direct cation <-> anion change; and propose_swaps leaves
   stateVector unchanged. *)
C29_PlanShape ==
    /\ [](pc = "returned" =>
            /\ Len(saltswap_state_pairs) = Abs(final_charge - initial_charge)
            /\ Len(saltswap_residue_indices) = Len(saltswap_state_pairs)
            /\ final_charge = initial_charge =>
                  /\ saltswap_residue_indices = <<>>
                  /\ log_ratio = ZeroLogRatio
            /\ \A i, j \in DOMAIN saltswap_residue_indices :
                  i # j => saltswap_residue_indices[i]
                              # saltswap_residue_indices[j]
            /\ \A i \in DOMAIN saltswap_state_pairs :
                  /\ saltswap_state_pairs[i][1]
                        = stateVector[saltswap_residue_indices[i]]
                  /\ saltswap_state_pairs[i][1] # saltswap_state_pairs[i][2]
                  /\ WATER \in {saltswap_state_pairs[i][1],
                                saltswap_state_pairs[i][2]})
    /\ [][stateVector' = stateVector]_vars

(* a plan of three entries: two cations taken out, one anion put in *)
C29_Witness ==
    /\ pc = "returned"
    /\ Len(saltswap_state_pairs) = 3
    /\ swaps["cation_to_water"] = 2
    /\ swaps["water_to_anion"] = 1

----------------------------------------------------------------------------
(* Population calculators *)

(* the concentration is the number p / q.  With an exponent that is no
   whole number of decades the concentration is irrational. *)
RECURSIVE MinExp(_)
MinExp(exps) ==
    IF Len(exps) = 1 THEN exps[1]
    ELSE LET m == MinExp(Tail(exps))
         IN IF exps[1] < m THEN exps[1] ELSE m

ValueIs(c, p, q) ==
    LET exps == <<c.num.exp>> \o [i \in DOMAIN c.den |-> c.den[i].exp]
        m == MinExp(exps)
        whole(x) == Power(10, (x - m) \div PHScale)
    IN /\ \A i \in DOMAIN exps : exps[i] % PHScale = 0
       /\ whole(c.num.exp) * q
             = p * c.over * SumSeq([i \in DOMAIN c.den |-> whole(c.den[i].exp)])

(* C24: for the Histidine population model built at pH = pka_e = 7.1,
   hie_concentration() equals hid_concentration(). *)
C24_HieEqualsHid ==
    (calculator.class = "Histidine" /\ calculator_pH = pka_e
     /\ populations # <<>>)
    => /\ concentrations.hie = concentrations.hid
       /\ populations[3] = populations[2]

(* C24, amended: for the Histidine population model built at
   pH = pka_e = 7.1, hie_concentration() equals hip_concentration(). *)
C24_HieEqualsHip ==
    (calculator.class = "Histidine" /\ calculator_pH = pka_e
     /\ populations # <<>>)
    => /\ concentrations.hie = concentrations.hip
       /\ populations[3] = populations[1]

(* the model built at pH 7.1 and asked; its delta form differs *)
C24_Witness ==
    /\ calculator.class = "Histidine"
    /\ calculator_pH = pka_e
    /\ populations # <<>>
    /\ concentrations.hid # concentrations.hie

(* C25: for the Histidine population model built at pH = pka_d = 6.5,
   hip_concentration() equals hid_concentration(). *)
C25_HipEqualsHid ==
    (calculator.class = "Histidine" /\ calculator_pH = pka_d
     /\ populations # <<>>)
    => /\ concentrations.hip = concentrations.hid
       /\ populations[1] = populations[2]

(* the model built at pH 6.5 and asked; its epsilon form differs *)
C25_Witness ==
    /\ calculator.class = "Histidine"
    /\ calculator_pH = pka_d
    /\ populations # <<>>
    /\ concentrations.hie # concentrations.hid

(* C26: for the Aspartic4 population model built at pH equal to its pKa, the
   deprotonated and the total protonated concentration are both 0.5, and
   populations() returns the deprotonated value 0.5 followed by four
   protonated rotamer entries of 0.125 each. *)
C26_Aspartic4AtPka ==
    (calculator.class = "Aspartic4" /\ calculator_pH = pka
     /\ populations # <<>>)
    => /\ ValueIs(concentrations.deprotonated, 1, 2)
       /\ ValueIs(concentrations.protonated, 1, 2)
       /\ Len(populations) = 5
       /\ ValueIs(populations[1], 1, 2)
       /\ \A i \in 2..5 : ValueIs(populations[i], 1, 8)

(* the model built at pH 4.0 and asked *)
C26_Witness ==
    /\ calculator.class = "Aspartic4"
    /\ calculator_pH = pka
    /\ Len(populations) = 5
    /\ populations[2].over = 4

----------------------------------------------------------------------------
(* State registry *)

(* C27: after the state registry of a titratable template is completed,
   every state's proton_count equals its integer net charge minus the minimum
   net charge over all states of that template; so every proton_count is
   >= 0 and at least one state has proton_count 0. *)
C27_ProtonCounts ==
    registry_pc = "completed" =>
        /\ Len(state_templates) = Len(input_state_data)
        /\ \A i \in DOMAIN state_templates :
              /\ \A j \in DOMAIN input_state_data :
                    state_templates[i].proton_count
                       >= IntOf(input_state_data[i])
                            - IntOf(input_state_data[j])
              /\ \E j \in DOMAIN input_state_data :
                    state_templates[i].proton_count
                       = IntOf(input_state_data[i])
                            - IntOf(input_state_data[j])
              /\ state_templates[i].proton_count >= 0
        /\ \E i \in DOMAIN state_templates :
              state_templates[i].proton_count = 0

(* three states of three different charges, the lowest of them negative *)
C27_Witness ==
    /\ registry_pc = "completed"
    /\ Len(state_templates) = 3
    /\ state_templates[1].proton_count = 2
    /\ state_templates[2].proton_count = 0
    /\ state_templates[3].proton_count = 1
    /\ IntOf(input_state_data[2]) < 0

=============================================================================
